---- MODULE Spec2Model ----
(***************************************************************************)
(* Model of the gridworks-pico firmware family: the over-the-air update    *)
(* and rollback protocol (boot.py written by provisioner.py, update_code   *)
(* and update_app_config of the *_main.py files) and the polled-level      *)
(* pulse debouncer of flow_reed_main.py.                                   *)
(***************************************************************************)
EXTENDS Integers, Sequences, FiniteSets, TLC

(***************************************************************************)
(* Bounds of the model.                                                    *)
(***************************************************************************)
\* number of distinct firmware images the Transport can serve
NumImages == 2
\* last value of the millisecond clock explored by the debouncer model
MaxTime == 12
\* largest step of the millisecond clock between two main-loop passes
MaxStep == 3
\* largest configured DeadbandMilliseconds explored
MaxDeadband == 3
MaxSlowTime == 5
MaxHallUs == 120000000
MaxPulses == 3
MaxFlowLists == 2
MaxBtuUs == 35000000
MaxEdges == 5

(***************************************************************************)
(* The four firmware slots: files of the Pico's flash file system.         *)
(***************************************************************************)
MAIN == "main.py"
UPDATE == "main_update.py"
REVERT == "main_revert.py"
PREVIOUS == "main_previous.py"
Slots == {MAIN, UPDATE, REVERT, PREVIOUS}

\* content of a slot: an image, or None when the file is absent
None == 0
Images == 1 .. NumImages
Files == [Slots -> Images \cup {None}]

\* name in os.listdir()
Exists(f, n) == f[n] # None

\* os.remove(n): OSError when n is absent
os_remove(r, n) ==
    IF r.err THEN r
    ELSE IF ~Exists(r.fs, n) THEN [r EXCEPT !.err = TRUE]
    ELSE [r EXCEPT !.fs[n] = None]

\* os.rename(a, b): OSError when a is absent; an existing b is replaced
os_rename(r, a, b) ==
    IF r.err THEN r
    ELSE IF ~Exists(r.fs, a) THEN [r EXCEPT !.err = TRUE]
    ELSE [r EXCEPT !.fs = [r.fs EXCEPT ![b] = r.fs[a], ![a] = None]]

(***************************************************************************)
(* boot.py, run at every reset before main.py.                             *)
(***************************************************************************)
\* mutant: the update path without the 'main.py' in os.listdir() guard
bootpy_code_unguarded(f) ==
    LET r0 == [fs |-> f, err |-> FALSE] IN
    IF Exists(f, UPDATE) THEN
        LET r1 == IF Exists(r0.fs, PREVIOUS) THEN os_remove(r0, PREVIOUS) ELSE r0
            r2 == os_rename(r1, MAIN, PREVIOUS)
        IN  os_rename(r2, UPDATE, MAIN)
    ELSE IF Exists(f, REVERT) THEN
        LET r1 == os_remove(r0, MAIN)
        IN  os_rename(r1, REVERT, MAIN)
    ELSE r0

\* mutant: the update path promotes the staged image without demoting main.py
bootpy_code_nodemote(f) ==
    LET r0 == [fs |-> f, err |-> FALSE] IN
    IF Exists(f, UPDATE) THEN
        LET r2 == IF Exists(r0.fs, MAIN) THEN os_remove(r0, MAIN) ELSE r0
        IN  os_rename(r2, UPDATE, MAIN)
    ELSE IF Exists(f, REVERT) THEN
        LET r1 == IF Exists(r0.fs, MAIN) THEN os_remove(r0, MAIN) ELSE r0
        IN  os_rename(r1, REVERT, MAIN)
    ELSE r0

\* mutant: the rollback path keeps main.py and leaves main_revert.py staged
bootpy_code_norevert(f) ==
    LET r0 == [fs |-> f, err |-> FALSE] IN
    IF Exists(f, UPDATE) THEN
        LET r1 == IF Exists(r0.fs, PREVIOUS) THEN os_remove(r0, PREVIOUS) ELSE r0
            r2 == IF Exists(r1.fs, MAIN) THEN os_rename(r1, MAIN, PREVIOUS) ELSE r1
        IN  os_rename(r2, UPDATE, MAIN)
    ELSE r0

\* mutant: the rollback is tested before the update
bootpy_code_revertfirst(f) ==
    LET r0 == [fs |-> f, err |-> FALSE] IN
    IF Exists(f, REVERT) THEN
        LET r1 == IF Exists(r0.fs, MAIN) THEN os_rename(r0, MAIN, PREVIOUS) ELSE r0
        IN  os_rename(r1, REVERT, MAIN)
    ELSE IF Exists(f, UPDATE) THEN
        LET r1 == IF Exists(r0.fs, PREVIOUS) THEN os_remove(r0, PREVIOUS) ELSE r0
            r2 == IF Exists(r1.fs, MAIN) THEN os_rename(r1, MAIN, PREVIOUS) ELSE r1
        IN  os_rename(r2, UPDATE, MAIN)
    ELSE r0

\* mutant: an existing main_previous.py is kept and main.py is dropped
bootpy_code_keepoldest(f) ==
    LET r0 == [fs |-> f, err |-> FALSE] IN
    IF Exists(f, UPDATE) THEN
        LET r1 == IF Exists(r0.fs, PREVIOUS)
                  THEN (IF Exists(r0.fs, MAIN) THEN os_remove(r0, MAIN) ELSE r0)
                  ELSE (IF Exists(r0.fs, MAIN) THEN os_rename(r0, MAIN, PREVIOUS) ELSE r0)
        IN  os_rename(r1, UPDATE, MAIN)
    ELSE IF Exists(f, REVERT) THEN
        LET r1 == IF Exists(r0.fs, MAIN) THEN os_remove(r0, MAIN) ELSE r0
        IN  os_rename(r1, REVERT, MAIN)
    ELSE r0

bootpy_code(f) ==
    LET r0 == [fs |-> f, err |-> FALSE] IN
    IF Exists(f, UPDATE) THEN
        LET r1 == IF Exists(r0.fs, PREVIOUS) THEN os_remove(r0, PREVIOUS) ELSE r0
            r2 == IF Exists(r1.fs, MAIN) THEN os_rename(r1, MAIN, PREVIOUS) ELSE r1
        IN  os_rename(r2, UPDATE, MAIN)
    ELSE IF Exists(f, REVERT) THEN
        LET r1 == IF Exists(r0.fs, MAIN) THEN os_remove(r0, MAIN) ELSE r0
        IN  os_rename(r1, REVERT, MAIN)
    ELSE r0

\* boot.py cut short by a reset after its first k file operations (all of
\* boot.py when it makes no more than k)
bootpy_code_until(f, k) ==
    LET r0 == [fs |-> f, err |-> FALSE] IN
    IF Exists(f, UPDATE) THEN
        LET c1 == IF Exists(r0.fs, PREVIOUS) THEN 1 ELSE 0
            r1 == IF Exists(r0.fs, PREVIOUS) THEN os_remove(r0, PREVIOUS) ELSE r0
            c2 == IF Exists(r1.fs, MAIN) THEN c1 + 1 ELSE c1
            r2 == IF Exists(r1.fs, MAIN) THEN os_rename(r1, MAIN, PREVIOUS) ELSE r1
        IN  IF c1 = k THEN r1
            ELSE IF c2 = k THEN r2
            ELSE os_rename(r2, UPDATE, MAIN)
    ELSE IF Exists(f, REVERT) THEN
        LET c1 == IF Exists(r0.fs, MAIN) THEN 1 ELSE 0
            r1 == IF Exists(r0.fs, MAIN) THEN os_remove(r0, MAIN) ELSE r0
        IN  IF c1 = k THEN r1
            ELSE os_rename(r1, REVERT, MAIN)
    ELSE r0

\* which branch of boot.py a file system takes
BootPath(f) ==
    IF Exists(f, UPDATE) THEN "update"
    ELSE IF Exists(f, REVERT) THEN "revert"
    ELSE "none"

(***************************************************************************)
(* Transport answers.                                                      *)
(***************************************************************************)
\* response.status_code of a successful request
HTTP_OK == 200
\* any other status code
HTTP_OTHER == 404

\* Answer to the firmware check: urequests.post raised (exc), or a status
\* and a body.  The body is JSON text ("json"), text that is not JSON such
\* as a Python file ("text"), or bytes that are not UTF-8 ("binary");
\* content is the image the bytes make when written to a .py file.
FwResponses ==
    {[exc |-> TRUE, status |-> 0, kind |-> "none", content |-> None]} \cup
    [exc : {FALSE}, status : {HTTP_OK, HTTP_OTHER},
     kind : {"json", "text", "binary"}, content : Images]

\* ujson.loads(response.content.decode('utf-8')) returns without raising
JsonDecodable(r) == r.kind = "json"

\* mutant: the image is written whatever the status code is
update_code_anystatus(f, r) ==
    IF r.exc THEN [fs |-> f, next |-> "raise"]
    ELSE IF JsonDecodable(r) THEN [fs |-> f, next |-> "return"]
    ELSE [fs |-> [f EXCEPT ![UPDATE] = r.content], next |-> "reset"]

\* update_code: next is "reset" (machine.reset()), "return" or "raise"
update_code(f, r) ==
    IF r.exc THEN [fs |-> f, next |-> "raise"]
    ELSE IF r.status = HTTP_OK THEN
        IF JsonDecodable(r) THEN [fs |-> f, next |-> "return"]
        ELSE [fs |-> [f EXCEPT ![UPDATE] = r.content], next |-> "reset"]
    ELSE [fs |-> f, next |-> "return"]

(***************************************************************************)
(* Application configuration (app_config.json and the fields of self).     *)
(***************************************************************************)
Names == {"pico-flow-hall", "beech"}
\* values of AlphaTimes100 served or stored
AlphaVals == {10, 53}
Missing == "missing"
BadType == "badtype"

DEFAULT_ACTOR_NAME == "pico-flow-hall"
DEFAULT_ALPHA_TIMES_100 == 10

\* int(self.alpha * 100) for self.alpha = n / 100 in MicroPython's single
\* precision floats: 53/100*100 and 59/100*100 fall just below the integer
IntAlphaTimes100(n) == IF n \in {53, 59} THEN n - 1 ELSE n

\* self.alpha is kept as the integer n it was divided from (alpha = n / 100)
load_app_config(cf) ==
    [actor_node_name |-> cf.ActorNodeName, alpha |-> cf.AlphaTimes100]

save_app_config(c) ==
    [ActorNodeName |-> c.actor_node_name,
     AlphaTimes100 |-> IntAlphaTimes100(c.alpha)]

\* Answer to the configuration handshake: urequests.post raised (exc), or a
\* status and a body that is not JSON ("notjson"), a JSON list ("list") or
\* a JSON object ("dict"); its "ActorNodeName" may be missing, its
\* "AlphaTimes100" may be missing, a number (alphaKind "int") or a value
\* that cannot be divided (a string, null).
CfgResponses ==
    {[exc |-> TRUE, status |-> 0, kind |-> "none", name |-> Missing,
      alphaKind |-> Missing, alpha |-> DEFAULT_ALPHA_TIMES_100]}
    \cup [exc : {FALSE}, status : {HTTP_OK, HTTP_OTHER}, kind : {"notjson", "list"},
          name : {Missing}, alphaKind : {Missing}, alpha : {DEFAULT_ALPHA_TIMES_100}]
    \cup [exc : {FALSE}, status : {HTTP_OK, HTTP_OTHER}, kind : {"dict"},
          name : Names \cup {Missing}, alphaKind : {Missing, BadType},
          alpha : {DEFAULT_ALPHA_TIMES_100}]
    \cup [exc : {FALSE}, status : {HTTP_OK, HTTP_OTHER}, kind : {"dict"},
          name : Names \cup {Missing}, alphaKind : {"int"}, alpha : AlphaVals]

\* mutant: the previous image is copied to main_revert.py, not renamed
revert_to_previous_copy(f, c, cf) ==
    IF Exists(f, PREVIOUS)
    THEN [fs |-> [f EXCEPT ![REVERT] = f[PREVIOUS]],
          cfg |-> c, cfgFile |-> cf, next |-> "reset", failed |-> TRUE]
    ELSE [fs |-> f, cfg |-> c, cfgFile |-> cf, next |-> "return", failed |-> TRUE]

\* the except branch of update_app_config
revert_to_previous(f, c, cf) ==
    IF Exists(f, PREVIOUS)
    THEN [fs |-> os_rename([fs |-> f, err |-> FALSE], PREVIOUS, REVERT).fs,
          cfg |-> c, cfgFile |-> cf, next |-> "reset", failed |-> TRUE]
    ELSE [fs |-> f, cfg |-> c, cfgFile |-> cf, next |-> "return", failed |-> TRUE]

\* update_app_config: the fields of self are assigned one by one inside the
\* try block, so an exception leaves the fields assigned before it changed
update_app_config(f, c, cf, r) ==
    IF r.exc THEN revert_to_previous(f, c, cf)
    ELSE IF r.status # HTTP_OK THEN
        [fs |-> f, cfg |-> c, cfgFile |-> cf, next |-> "return", failed |-> FALSE]
    ELSE IF r.kind = "notjson" THEN revert_to_previous(f, c, cf)
    ELSE IF r.kind = "list" THEN revert_to_previous(f, c, cf)
    ELSE
        LET c1 == IF r.name = Missing THEN c
                  ELSE [c EXCEPT !.actor_node_name = r.name]
        IN  IF r.alphaKind = BadType THEN revert_to_previous(f, c1, cf)
            ELSE
                LET c2 == IF r.alphaKind = Missing THEN c1
                          ELSE [c1 EXCEPT !.alpha = r.alpha]
                IN  [fs |-> f, cfg |-> c2, cfgFile |-> save_app_config(c2),
                     next |-> "return", failed |-> FALSE]

(***************************************************************************)
(* The reed flow meter (flow_reed_main.py): polled-level debouncing, the   *)
(* tick list and the exponentially weighted GPM.                           *)
(***************************************************************************)
\* Python's None, for fields that hold a number otherwise
PyNone == -1

\* class PinState
GOING_UP == 0
UP == 1
GOING_DOWN == 2
DOWN == 3

DEFAULT_DEADBAND_MILLISECONDS == 10
TIME_WEIGHTING_MS == 800
POST_LIST_LENGTH == 100
DEFAULT_GALLONS_PER_TICK_TIMES_10000 == 748
DEFAULT_ASYNC_DELTA_GPM_TIMES_100 == 10
\* the delta fed to update_gpm when the flow has stopped (1e9)
SYNTHETIC_DELTA_MS == 1000000000
\* NoFlowMilliseconds of the explored configuration
ModelNoFlowMs == 5

\* post_gpm: with SyncReportGpm the rate is posted (an exception of the
\* Transport is caught) and recorded as the last posted one, with the
\* second of the post; t is the millisecond clock
post_gpm(s, t) ==
    IF s.sync_report_gpm
    THEN [s EXCEPT !.prev_gpm = s.exp_gpm,
                   !.gpm_posted_time = t \div 1000,
                   !.gpm_posts = s.gpm_posts + 1,
                   !.exp_at_post = s.exp_gpm]
    ELSE s

\* |a - b|
Abs(x) == IF x < 0 THEN -x ELSE x

\* 100 * gallons_per_tick * 60 * (1000 / delta_ms): GPM is kept times 100,
\* in integers
Gpm100(s, delta_ms) ==
    (s.gallons_per_tick_times_10000 * 60 * 1000) \div (100 * delta_ms)

\* update_gpm; tw_alpha = min(1, (delta_ms / TIME_WEIGHTING_MS) * alpha)
\* is the fraction twn / twd with alpha = alpha_times_100 / 100, and
\* tw_alpha * gpm + (1 - tw_alpha) * exp_gpm is computed as
\* exp_gpm + tw_alpha * (gpm - exp_gpm), rounded down to 1/100 GPM
update_gpm(s, delta_ms, t) ==
    LET gpm == Gpm100(s, delta_ms)
        twd == TIME_WEIGHTING_MS * 100
        twn == IF delta_ms * s.alpha_times_100 > twd THEN twd
               ELSE delta_ms * s.alpha_times_100
        exp == IF delta_ms > s.no_flow_milliseconds THEN 0
               ELSE IF s.exp_gpm = 0 THEN gpm
               ELSE IF twn = twd THEN gpm
               ELSE s.exp_gpm + (twn * (gpm - s.exp_gpm)) \div twd
        s1 == [s EXCEPT !.exp_gpm = exp]
    IN  IF s1.prev_gpm = PyNone THEN post_gpm(s1, t)
        ELSE IF Abs(s1.exp_gpm - s1.prev_gpm) > s1.async_delta_gpm_times_100
             THEN post_gpm(s1, t)
             ELSE s1

\* post_timestamp_list: the list is posted (an exception of the Transport
\* is caught) and cleared
post_timestamp_list(s) ==
    IF s.first_tick_ms = PyNone THEN s
    ELSE [s EXCEPT !.relative_ms_list = <<>>, !.first_tick_ms = PyNone,
                   !.list_posts = s.list_posts + 1]

\* mutant: the list is never posted
publish_when_full_never(s) == s

\* main_loop, lines 317-321: the list is posted when it is long enough
publish_when_full(s) ==
    IF Len(s.relative_ms_list) >= POST_LIST_LENGTH /\ ~s.posting_ticklist
    THEN post_timestamp_list(s)
    ELSE s

\* main_loop, lines 330-340: the tick taken on down -> going up.  The first
\* tick of a list seeds first_tick_ms and is recorded as 0; a later one is
\* recorded relative to first_tick_ms and its distance to the one before is
\* given to update_gpm.  last_tick_abs, tick_gap and zeros_fed are history:
\* the clock reading of the last tick appended, its distance to the one
\* before, and the number of update_gpm(1e9) calls since that tick.
take_tick_lost(s, current_time_ms) ==
    [s EXCEPT !.published_0_gpm = FALSE, !.zeros_fed = 0]

take_tick(s, current_time_ms) ==
    LET s1 == [s EXCEPT !.published_0_gpm = FALSE,
                        !.zeros_fed = 0,
                        !.last_tick_abs = current_time_ms,
                        !.tick_gap = IF s.last_tick_abs = PyNone THEN PyNone
                                     ELSE current_time_ms - s.last_tick_abs]
    IN  IF s1.first_tick_ms = PyNone
        THEN [s1 EXCEPT !.first_tick_ms = current_time_ms,
                        !.relative_ms_list = Append(s1.relative_ms_list, 0)]
        ELSE LET relative_ms == current_time_ms - s1.first_tick_ms
                 delta_ms == relative_ms
                             - s1.relative_ms_list[Len(s1.relative_ms_list)]
                 s2 == update_gpm(s1, delta_ms, current_time_ms)
             IN  [s2 EXCEPT !.relative_ms_list =
                                Append(s2.relative_ms_list, relative_ms)]

\* mutant: the forward transitions wait for the clock to move, not for the
\* deadband
debounce_anywait(s, current_reading, current_time_ms) ==
    IF s.pin_state = DOWN /\ current_reading = 1 THEN
        take_tick([s EXCEPT !.pin_state = GOING_UP,
                            !.time_since_1 = current_time_ms],
                  current_time_ms)
    ELSE IF s.pin_state = GOING_UP /\ current_reading = 0 THEN
        [s EXCEPT !.time_since_1 = current_time_ms]
    ELSE IF s.pin_state = GOING_UP /\ current_reading = 1 THEN
        IF (current_time_ms - s.time_since_1) > 0
        THEN [s EXCEPT !.pin_state = UP]
        ELSE s
    ELSE IF s.pin_state = UP /\ current_reading = 0 THEN
        [s EXCEPT !.pin_state = GOING_DOWN, !.time_since_0 = current_time_ms]
    ELSE IF s.pin_state = GOING_DOWN /\ current_reading = 1 THEN
        [s EXCEPT !.time_since_0 = current_time_ms]
    ELSE IF s.pin_state = GOING_DOWN /\ current_reading = 0 THEN
        IF (current_time_ms - s.time_since_0) > 0
        THEN [s EXCEPT !.pin_state = DOWN]
        ELSE s
    ELSE s

\* mutant: an opposite reading in going up / going down leaves the timer
\* alone
debounce_norestart(s, current_reading, current_time_ms) ==
    IF s.pin_state = DOWN /\ current_reading = 1 THEN
        take_tick([s EXCEPT !.pin_state = GOING_UP,
                            !.time_since_1 = current_time_ms],
                  current_time_ms)
    ELSE IF s.pin_state = GOING_UP /\ current_reading = 1 THEN
        IF (current_time_ms - s.time_since_1) > s.deadband_milliseconds
        THEN [s EXCEPT !.pin_state = UP]
        ELSE s
    ELSE IF s.pin_state = UP /\ current_reading = 0 THEN
        [s EXCEPT !.pin_state = GOING_DOWN, !.time_since_0 = current_time_ms]
    ELSE IF s.pin_state = GOING_DOWN /\ current_reading = 0 THEN
        IF (current_time_ms - s.time_since_0) > s.deadband_milliseconds
        THEN [s EXCEPT !.pin_state = DOWN]
        ELSE s
    ELSE s

\* mutant: an opposite reading in going up / going down goes back to the
\* stable state it came from
debounce_bounceback(s, current_reading, current_time_ms) ==
    IF s.pin_state = DOWN /\ current_reading = 1 THEN
        take_tick([s EXCEPT !.pin_state = GOING_UP,
                            !.time_since_1 = current_time_ms],
                  current_time_ms)
    ELSE IF s.pin_state = GOING_UP /\ current_reading = 0 THEN
        [s EXCEPT !.pin_state = DOWN]
    ELSE IF s.pin_state = GOING_UP /\ current_reading = 1 THEN
        IF (current_time_ms - s.time_since_1) > s.deadband_milliseconds
        THEN [s EXCEPT !.pin_state = UP]
        ELSE s
    ELSE IF s.pin_state = UP /\ current_reading = 0 THEN
        [s EXCEPT !.pin_state = GOING_DOWN, !.time_since_0 = current_time_ms]
    ELSE IF s.pin_state = GOING_DOWN /\ current_reading = 1 THEN
        [s EXCEPT !.pin_state = UP]
    ELSE IF s.pin_state = GOING_DOWN /\ current_reading = 0 THEN
        IF (current_time_ms - s.time_since_0) > s.deadband_milliseconds
        THEN [s EXCEPT !.pin_state = DOWN]
        ELSE s
    ELSE s

\* main_loop, lines 323-363: the four-state machine down -> going up -> up
\* -> going down -> down; the tick is taken on down -> going up.
debounce(s, current_reading, current_time_ms) ==
    IF s.pin_state = DOWN /\ current_reading = 1 THEN
        take_tick([s EXCEPT !.pin_state = GOING_UP,
                            !.time_since_1 = current_time_ms],
                  current_time_ms)
    ELSE IF s.pin_state = GOING_UP /\ current_reading = 0 THEN
        [s EXCEPT !.time_since_1 = current_time_ms]
    ELSE IF s.pin_state = GOING_UP /\ current_reading = 1 THEN
        IF (current_time_ms - s.time_since_1) > s.deadband_milliseconds
        THEN [s EXCEPT !.pin_state = UP]
        ELSE s
    ELSE IF s.pin_state = UP /\ current_reading = 0 THEN
        [s EXCEPT !.pin_state = GOING_DOWN, !.time_since_0 = current_time_ms]
    ELSE IF s.pin_state = GOING_DOWN /\ current_reading = 1 THEN
        [s EXCEPT !.time_since_0 = current_time_ms]
    ELSE IF s.pin_state = GOING_DOWN /\ current_reading = 0 THEN
        IF (current_time_ms - s.time_since_0) > s.deadband_milliseconds
        THEN [s EXCEPT !.pin_state = DOWN]
        ELSE s
    ELSE s

\* mutant: 0 gpm is reported by every pass after the silence
report_zero_gpm_unlatched(s, current_time_ms) ==
    IF s.first_tick_ms # PyNone THEN
        LET time_since_last_tick ==
                current_time_ms - s.first_tick_ms
                - s.relative_ms_list[Len(s.relative_ms_list)]
        IN  IF time_since_last_tick > s.no_flow_milliseconds
            THEN [update_gpm(s, SYNTHETIC_DELTA_MS, current_time_ms)
                      EXCEPT !.published_0_gpm = TRUE,
                             !.zeros_fed = s.zeros_fed + 1]
            ELSE s
    ELSE s

\* main_loop, lines 365-370: reporting 0 gpm
report_zero_gpm(s, current_time_ms) ==
    IF s.first_tick_ms # PyNone THEN
        LET time_since_last_tick ==
                current_time_ms - s.first_tick_ms
                - s.relative_ms_list[Len(s.relative_ms_list)]
        IN  IF time_since_last_tick > s.no_flow_milliseconds /\ ~s.published_0_gpm
            THEN [update_gpm(s, SYNTHETIC_DELTA_MS, current_time_ms)
                      EXCEPT !.published_0_gpm = TRUE,
                             !.zeros_fed = s.zeros_fed + 1]
            ELSE s
    ELSE s

\* one pass of the while loop of main_loop
main_loop(s, current_reading, current_time_ms) ==
    report_zero_gpm(
        debounce(publish_when_full(s), current_reading, current_time_ms),
        current_time_ms)

\* the fields of self after __init__, before start() has reached main_loop
reed_constructed ==
    [deadband_milliseconds |-> DEFAULT_DEADBAND_MILLISECONDS,
     no_flow_milliseconds |-> ModelNoFlowMs,
     gallons_per_tick_times_10000 |-> DEFAULT_GALLONS_PER_TICK_TIMES_10000,
     alpha_times_100 |-> DEFAULT_ALPHA_TIMES_100,
     async_delta_gpm_times_100 |-> DEFAULT_ASYNC_DELTA_GPM_TIMES_100,
     sync_report_gpm |-> TRUE,
     exp_gpm |-> 0, prev_gpm |-> PyNone, gpm_posted_time |-> 0,
     posting_ticklist |-> FALSE,
     first_tick_ms |-> PyNone, relative_ms_list |-> <<>>,
     pin_state |-> PyNone, time_since_0 |-> 0, time_since_1 |-> 0,
     published_0_gpm |-> FALSE,
     gpm_posts |-> 0, list_posts |-> 0, exp_at_post |-> 0,
     last_tick_abs |-> PyNone, tick_gap |-> PyNone, zeros_fed |-> 0]

(***************************************************************************)
(* The slow flow meter (flow_slow/all_three.py; primary.py is the same     *)
(* with one pin and no GPM): interrupt-driven, one latest timestamp per    *)
(* pin.                                                                    *)
(***************************************************************************)
PULSE_0_PIN == 0
PULSE_1_PIN == 1
PULSE_2_PIN == 2
Pins == {PULSE_0_PIN, PULSE_1_PIN, PULSE_2_PIN}

\* update_gpm of all_three.py, in 1/100 GPM as above
slow_update_gpm(s, pin_number, delta_ms) ==
    LET gpm == (s.gallons_per_tick_times_10000[pin_number] * 60 * 1000)
               \div (100 * delta_ms)
        twd == TIME_WEIGHTING_MS * 100
        twn == IF delta_ms * s.alpha_times_100 > twd THEN twd
               ELSE delta_ms * s.alpha_times_100
        old == s.exp_gpm[pin_number]
        exp == IF delta_ms > s.no_flow_milliseconds THEN 0
               ELSE IF old = 0 THEN gpm
               ELSE IF twn = twd THEN gpm
               ELSE old + (twn * (gpm - old)) \div twd
    IN  [s EXCEPT !.exp_gpm[pin_number] = exp]

\* post_gpm of all_three.py: nothing without PublishGpm; else the rate is
\* posted (an exception of the Transport is caught) and recorded
slow_post_gpm(s, pin_number) ==
    IF ~s.publish_gpm THEN s
    ELSE [s EXCEPT !.prev_gpm[pin_number] = s.exp_gpm[pin_number]]

\* mutant: every notification becomes the latest timestamp, accepted or not
slow_pulse_callback_restamp(s, pin_number, current_timestamp_ms) ==
    IF s.latest_timestamps_ms[pin_number] = PyNone
    THEN [s EXCEPT !.latest_timestamps_ms[pin_number] = current_timestamp_ms]
    ELSE
        LET delta_ms == current_timestamp_ms
                        - s.latest_timestamps_ms[pin_number]
            s1 == [s EXCEPT !.latest_timestamps_ms[pin_number] =
                                current_timestamp_ms]
        IN  IF delta_ms > s.deadband_milliseconds
            THEN LET s2 == slow_update_gpm(s1, pin_number, delta_ms)
                 IN  IF \/ s2.prev_gpm[pin_number] = PyNone
                        \/ Abs(s2.exp_gpm[pin_number] - s2.prev_gpm[pin_number])
                               > s2.async_delta_gpm_times_100
                     THEN slow_post_gpm(s2, pin_number)
                     ELSE s2
            ELSE s1

\* pulse_callback of all_three.py (post_tick_delta changes no field)
slow_pulse_callback(s, pin_number, current_timestamp_ms) ==
    IF s.latest_timestamps_ms[pin_number] = PyNone
    THEN [s EXCEPT !.latest_timestamps_ms[pin_number] = current_timestamp_ms]
    ELSE
        LET delta_ms == current_timestamp_ms
                        - s.latest_timestamps_ms[pin_number]
        IN  IF delta_ms > s.deadband_milliseconds
            THEN LET s1 == [s EXCEPT !.latest_timestamps_ms[pin_number] =
                                         current_timestamp_ms]
                     s2 == slow_update_gpm(s1, pin_number, delta_ms)
                 IN  IF \/ s2.prev_gpm[pin_number] = PyNone
                        \/ Abs(s2.exp_gpm[pin_number] - s2.prev_gpm[pin_number])
                               > s2.async_delta_gpm_times_100
                     THEN slow_post_gpm(s2, pin_number)
                     ELSE s2
            ELSE s

\* the fields of self after __init__
slow_constructed ==
    [deadband_milliseconds |-> DEFAULT_DEADBAND_MILLISECONDS,
     no_flow_milliseconds |-> ModelNoFlowMs,
     publish_gpm |-> TRUE,
     gallons_per_tick_times_10000 |->
         [n \in Pins |-> DEFAULT_GALLONS_PER_TICK_TIMES_10000],
     alpha_times_100 |-> DEFAULT_ALPHA_TIMES_100,
     async_delta_gpm_times_100 |-> DEFAULT_ASYNC_DELTA_GPM_TIMES_100,
     latest_timestamps_ms |-> [n \in Pins |-> PyNone],
     exp_gpm |-> [n \in Pins |-> 0],
     prev_gpm |-> [n \in Pins |-> PyNone]]

\* history of the slow meter: no notification yet, the clock at 0
sobs_started ==
    [step |-> "none", pin |-> PULSE_0_PIN, t |-> 0, pre |-> slow_constructed,
     gap |-> PyNone]

\* history of one pulse_callback on pin_number at current_timestamp_ms that
\* took the meter from s to s1: gap is the distance of the notification to
\* the latest timestamp of the pin when it replaced it
slow_observe(s, s1, pin_number, current_timestamp_ms) ==
    [step |-> "pulse", pin |-> pin_number, t |-> current_timestamp_ms,
     pre |-> s,
     gap |-> IF /\ s.latest_timestamps_ms[pin_number] # PyNone
                /\ s1.latest_timestamps_ms[pin_number]
                      # s.latest_timestamps_ms[pin_number]
             THEN current_timestamp_ms - s.latest_timestamps_ms[pin_number]
             ELSE PyNone]

(***************************************************************************)
(* The hall flow meter (flow_hall_main.py): the pin's interrupt calls      *)
(* pulse_callback, a timer calls keep_alive, and main_loop posts the tick  *)
(* list.  Hz is kept times 100, in integers; the clock is in microseconds. *)
(***************************************************************************)
DEFAULT_ASYNC_CAPTURE_DELTA_HZ == 1
DEFAULT_EXP_WEIGHTING_MS == 40
DEFAULT_PUBLISH_STAMPS_PERIOD_S == 10
DEFAULT_NO_FLOW_MILLISECONDS == 1000
\* keep_alive posts when nothing was posted for more than 55 s
KEEP_ALIVE_AFTER_S == 55
\* main_loop feeds update_hz(1e9) after more than 1 s without ticks
NO_TICKS_AFTER_S == 1
\* the delta fed to update_hz when the flow has stopped (1e9)
SYNTHETIC_DELTA_US == 1000000000

\* utime.time() at the microsecond clock t
utime_time(t) == t \div 1000000

\* mutant: a post that fails loses the smoothed rate
post_hz_resets(s, t, ok) ==
    [s EXCEPT !.exp_hz = IF ok THEN s.exp_hz ELSE 0,
              !.prev_hz = IF ok THEN s.exp_hz ELSE 0,
              !.hz_posted_time = utime_time(t),
              !.hz_posts = 1 - s.hz_posts,
              !.hz_ok = ok,
              !.exp_at_post = s.exp_hz]

\* post_hz, lines 205-218: the payload is built from exp_hz and given to
\* urequests.post (ok: it did not raise; an exception is caught).  hz_posts,
\* hz_ok and exp_at_post are history: the number of posts made (modulo 2),
\* the outcome of the last one and the rate its payload carried.
send_hz(s, ok) ==
    [s EXCEPT !.hz_posts = 1 - s.hz_posts,
              !.hz_ok = ok,
              !.exp_at_post = s.exp_hz]

\* mutant: only a post that did not raise is recorded
record_hz_on_success(s, t) ==
    IF s.hz_ok
    THEN [s EXCEPT !.prev_hz = s.exp_hz, !.hz_posted_time = utime_time(t)]
    ELSE s

\* post_hz, lines 219-220: the rate is recorded as the last posted one
record_hz(s, t) ==
    [s EXCEPT !.prev_hz = s.exp_hz,
              !.hz_posted_time = utime_time(t)]

\* post_hz as one step, as the callbacks run it
post_hz(s, t, ok) == record_hz(send_hz(s, ok), t)

\* mutant: the timer posts whenever it fires
keep_alive_always(s, t, ok) ==
    [s EXCEPT !.prev_hz = s.exp_hz, !.hz_posted_time = utime_time(t),
              !.hz_posts = 1 - s.hz_posts, !.hz_ok = ok,
              !.exp_at_post = s.exp_hz]

\* keep_alive
keep_alive(s, t, ok) ==
    IF utime_time(t) - s.hz_posted_time > KEEP_ALIVE_AFTER_S /\ s.report_hz
    THEN post_hz(s, t, ok)
    ELSE s

\* mutant: a long delta is averaged in like any other
estimate_hz_noreset(s, delta_us) ==
    LET hz == 100000000 \div delta_us
    IN  [s EXCEPT !.exp_hz = IF s.exp_hz = 0 THEN hz
                             ELSE s.exp_hz + (hz - s.exp_hz) \div 2]

\* mutant: a delta of exactly no_flow_milliseconds resets the rate too
estimate_hz_reset_at_timeout(s, delta_us) ==
    LET hz == 100000000 \div delta_us
        tw == (delta_us * s.alpha_times_100) \div (s.exp_weighting_ms * 100)
        tw_alpha == IF tw > 1000 THEN 1000 ELSE tw
    IN  [s EXCEPT !.exp_hz =
            IF delta_us >= s.no_flow_milliseconds * 1000 THEN 0
            ELSE IF s.exp_hz = 0 THEN hz
            ELSE s.exp_hz + (tw_alpha * (hz - s.exp_hz)) \div 1000]

\* mutant: the average restarts from 0 like from any other value
estimate_hz_from_zero(s, delta_us) ==
    LET hz == 100000000 \div delta_us
        tw == (delta_us * s.alpha_times_100) \div (s.exp_weighting_ms * 100)
        tw_alpha == IF tw > 1000 THEN 1000 ELSE tw
    IN  [s EXCEPT !.exp_hz =
            IF delta_us > s.no_flow_milliseconds * 1000 THEN 0
            ELSE s.exp_hz + (tw_alpha * (hz - s.exp_hz)) \div 1000]

\* mutant: tw_alpha without min(1, ...)
estimate_hz_unclamped(s, delta_us) ==
    LET hz == 100000000 \div delta_us
        tw == (delta_us * s.alpha_times_100) \div (s.exp_weighting_ms * 100)
    IN  [s EXCEPT !.exp_hz =
            IF delta_us > s.no_flow_milliseconds * 1000 THEN 0
            ELSE IF s.exp_hz = 0 THEN hz
            ELSE s.exp_hz + (tw * (hz - s.exp_hz)) \div 1000]

\* update_hz, lines 238-246: the exponentially weighted average;
\* tw_alpha = min(1, (delta_ms / exp_weighting_ms) * alpha) is kept times
\* 1000 and tw_alpha * hz + (1 - tw_alpha) * exp_hz is computed as
\* exp_hz + tw_alpha * (hz - exp_hz)
estimate_hz(s, delta_us) ==
    LET hz == 100000000 \div delta_us
        tw == (delta_us * s.alpha_times_100) \div (s.exp_weighting_ms * 100)
        tw_alpha == IF tw > 1000 THEN 1000 ELSE tw
    IN  [s EXCEPT !.exp_hz =
            IF delta_us > s.no_flow_milliseconds * 1000 THEN 0
            ELSE IF s.exp_hz = 0 THEN hz
            ELSE s.exp_hz + (tw_alpha * (hz - s.exp_hz)) \div 1000]

\* mutant: any change of the rate is posted
should_post_hz_any_change(s) ==
    s.prev_hz = PyNone \/ s.exp_hz # s.prev_hz

\* update_hz, line 247: whether the rate is posted
should_post_hz(s) ==
    \/ s.prev_hz = PyNone
    \/ Abs(s.exp_hz - s.prev_hz) > s.async_capture_delta_hz * 100

\* update_hz as one step (called by pulse_callback)
update_hz(s, delta_us, t, ok) ==
    LET s1 == estimate_hz(s, delta_us)
    IN  IF should_post_hz(s1) THEN post_hz(s1, t, ok) ELSE s1

\* mutant: pulse_callback without the test of actively_publishing
pulse_callback_unguarded(s, current_timestamp_us, ok) ==
    IF s.first_tick_us = PyNone
    THEN [s EXCEPT !.first_tick_us = current_timestamp_us,
                   !.relative_us_list = Append(s.relative_us_list, 0)]
    ELSE LET relative_us == current_timestamp_us - s.first_tick_us
             delta_us == relative_us
                         - s.relative_us_list[Len(s.relative_us_list)]
             s1 == update_hz(s, delta_us, current_timestamp_us, ok)
         IN  [s1 EXCEPT !.relative_us_list =
                            Append(s1.relative_us_list, relative_us)]

\* mutant: the first pulse is given to update_hz like the others, with the
\* clock as its delta
pulse_callback_firstrate(s, current_timestamp_us, ok) ==
    IF s.actively_publishing THEN s
    ELSE IF s.first_tick_us = PyNone
    THEN LET s1 == update_hz(s, current_timestamp_us + 1,
                             current_timestamp_us, ok)
         IN  [s1 EXCEPT !.first_tick_us = current_timestamp_us,
                        !.relative_us_list = Append(s1.relative_us_list, 0)]
    ELSE LET relative_us == current_timestamp_us - s.first_tick_us
             delta_us == relative_us
                         - s.relative_us_list[Len(s.relative_us_list)]
             s1 == update_hz(s, delta_us, current_timestamp_us, ok)
         IN  [s1 EXCEPT !.relative_us_list =
                            Append(s1.relative_us_list, relative_us)]

\* mutant: the timestamps are recorded as read, not relative to the first
pulse_callback_absolute(s, current_timestamp_us, ok) ==
    IF s.actively_publishing THEN s
    ELSE IF s.first_tick_us = PyNone
    THEN [s EXCEPT !.first_tick_us = current_timestamp_us,
                   !.relative_us_list =
                       Append(s.relative_us_list, current_timestamp_us)]
    ELSE LET relative_us == current_timestamp_us - s.first_tick_us
             delta_us == relative_us
                         - s.relative_us_list[Len(s.relative_us_list)]
             s1 == update_hz(s, delta_us, current_timestamp_us, ok)
         IN  [s1 EXCEPT !.relative_us_list =
                            Append(s1.relative_us_list, relative_us)]

\* pulse_callback
pulse_callback(s, current_timestamp_us, ok) ==
    IF s.actively_publishing THEN s
    ELSE IF s.first_tick_us = PyNone
    THEN [s EXCEPT !.first_tick_us = current_timestamp_us,
                   !.relative_us_list = Append(s.relative_us_list, 0)]
    ELSE LET relative_us == current_timestamp_us - s.first_tick_us
             delta_us == relative_us
                         - s.relative_us_list[Len(s.relative_us_list)]
             s1 == update_hz(s, delta_us, current_timestamp_us, ok)
         IN  [s1 EXCEPT !.relative_us_list =
                            Append(s1.relative_us_list, relative_us)]

\* mutant: actively_publishing stays set
release_guard_never(s) == s

\* main_loop, line 302: actively_publishing is cleared, whatever the post did
release_guard(s) == [s EXCEPT !.actively_publishing = FALSE]

\* mutant: the posted list is kept
clear_ticklist_keeps(s) == s

\* post_ticklist, line 271: the list is emptied, whatever the post did
clear_ticklist(s) == [s EXCEPT !.relative_us_list = <<>>]

\* one step of main_loop (with post_ticklist, update_hz and post_hz, which
\* the interrupts can cut into) from the position pc at the clock t; the
\* result is the fields of self and the next position.  The sleeps are
\* positions where the clock moves.
hall_main_loop(s, pc, t, ok) ==
    CASE pc = "check_due" ->
            IF /\ utime_time(t) - s.last_ticks_sent > s.publish_stamps_period_s
               /\ Len(s.relative_us_list) > 0
            THEN [s |-> s, pc |-> "set_guard"]
            ELSE [s |-> s, pc |-> "check_idle"]
      [] pc = "set_guard" ->
            [s |-> [s EXCEPT !.actively_publishing = TRUE], pc |-> "post"]
      [] pc = "post" ->
            [s |-> s, pc |-> "clear_list"]
      [] pc = "clear_list" ->
            [s |-> clear_ticklist(s), pc |-> "clear_first"]
      [] pc = "clear_first" ->
            [s |-> [s EXCEPT !.first_tick_us = PyNone], pc |-> "stamp"]
      [] pc = "stamp" ->
            [s |-> [s EXCEPT !.last_ticks_sent = utime_time(t)],
             pc |-> "release_guard"]
      [] pc = "release_guard" ->
            [s |-> release_guard(s), pc |-> "check_idle"]
      [] pc = "check_idle" ->
            IF /\ utime_time(t) - s.last_ticks_sent > NO_TICKS_AFTER_S
               /\ Len(s.relative_us_list) = 0
            THEN [s |-> s, pc |-> "estimate"]
            ELSE [s |-> s, pc |-> "check_due"]
      [] pc = "estimate" ->
            [s |-> estimate_hz(s, SYNTHETIC_DELTA_US), pc |-> "test"]
      [] pc = "test" ->
            IF should_post_hz(s) THEN [s |-> s, pc |-> "post_hz"]
            ELSE [s |-> s, pc |-> "check_due"]
      [] pc = "post_hz" ->
            [s |-> send_hz(s, ok), pc |-> "record_hz"]
      [] pc = "record_hz" ->
            [s |-> record_hz(s, t), pc |-> "check_due"]

\* the fields of self after __init__ at the clock 0
hall_constructed ==
    [alpha_times_100 |-> DEFAULT_ALPHA_TIMES_100,
     async_capture_delta_hz |-> DEFAULT_ASYNC_CAPTURE_DELTA_HZ,
     exp_weighting_ms |-> DEFAULT_EXP_WEIGHTING_MS,
     publish_stamps_period_s |-> DEFAULT_PUBLISH_STAMPS_PERIOD_S,
     no_flow_milliseconds |-> DEFAULT_NO_FLOW_MILLISECONDS,
     report_hz |-> TRUE,
     exp_hz |-> 0, prev_hz |-> PyNone, hz_posted_time |-> 0,
     first_tick_us |-> PyNone, relative_us_list |-> <<>>,
     last_ticks_sent |-> 0, actively_publishing |-> FALSE,
     hz_posts |-> 0, hz_ok |-> TRUE, exp_at_post |-> 0]

\* the elements of a sequence
Range(q) == {q[i] : i \in DOMAIN q}

\* history of the hall meter before start(): no pulse, nothing posted
hobs_started ==
    [pulses |-> 0, ids |-> <<>>, flushed |-> <<>>, dropped |-> {},
     unsent |-> {}]

\* history of a pulse_callback that took the meter from s to s1: the pulse
\* gets the next number, which joins ids when a timestamp was appended and
\* dropped when actively_publishing was set
hall_observe_pulse(o, s, s1) ==
    [o EXCEPT !.pulses = o.pulses + 1,
              !.ids = IF Len(s1.relative_us_list) > Len(s.relative_us_list)
                      THEN Append(o.ids, o.pulses + 1) ELSE o.ids,
              !.dropped = IF s.actively_publishing
                          THEN o.dropped \cup {o.pulses + 1} ELSE o.dropped]

\* history of a step of main_loop from the position pc that left the meter
\* as s1: the post of the list sends the pulses of ids, which stay unsent
\* when the Transport raised; emptying the list empties ids
hall_observe_main(o, s1, pc, ok) ==
    [o EXCEPT !.flushed = IF pc = "post" THEN Append(o.flushed, o.ids)
                          ELSE o.flushed,
              !.unsent = IF pc # "post" THEN o.unsent
                         ELSE IF ok THEN o.unsent \ Range(o.ids)
                         ELSE o.unsent \cup Range(o.ids),
              !.ids = IF s1.relative_us_list = <<>> THEN <<>> ELSE o.ids]

(***************************************************************************)
(* The flow part of the BTU meter (btu_main.py): the pin's interrupt calls *)
(* pulse_callback, two timers call measure_flow and measure_temp, and      *)
(* main_loop posts the lists collected.  The microvolt lists are left out. *)
(***************************************************************************)
DEFAULT_PUBLISH_TICKLIST_PERIOD_S == 10
DEFAULT_PUBLISH_EMPTY_TICKLIST_AFTER_S == 5

\* pulse_callback of btu_main.py
btu_pulse_callback(s, current_timestamp_us) ==
    IF ~s.measuring_flow \/ s.actively_publishing THEN s
    ELSE IF s.first_tick_us = PyNone
    THEN [s EXCEPT !.first_tick_us = current_timestamp_us,
                   !.relative_us_list = <<0>>]
    ELSE LET relative_us == current_timestamp_us - s.first_tick_us
         IN  IF relative_us - s.relative_us_list[Len(s.relative_us_list)] > 1000
             THEN [s EXCEPT !.relative_us_list =
                                Append(s.relative_us_list, relative_us)]
             ELSE s

\* measure_flow
measure_flow(s) ==
    [s EXCEPT !.relative_us_list_list =
                  Append(s.relative_us_list_list, s.relative_us_list),
              !.first_tick_us = PyNone,
              !.relative_us_list = <<>>,
              !.measuring_flow = TRUE]

\* measure_temp
measure_temp(s) == [s EXCEPT !.measuring_flow = FALSE]

\* mutant: only lists with ticks are ever posted
ticklist_due_recorded_only(s, t) ==
    /\ \E i \in DOMAIN s.relative_us_list_list :
           s.relative_us_list_list[i] # <<>>
    /\ utime_time(t) - s.last_ticks_sent > s.publish_ticklist_period_s

\* main_loop, lines 369-375: the condition under which the lists are posted
ticklist_due(s, t) ==
    LET recorded_ticks ==
            \E i \in DOMAIN s.relative_us_list_list :
                s.relative_us_list_list[i] # <<>>
        time_since_last_ticks_sent == utime_time(t) - s.last_ticks_sent
    IN  \/ /\ recorded_ticks
           /\ time_since_last_ticks_sent > s.publish_ticklist_period_s
        \/ /\ ~recorded_ticks
           /\ time_since_last_ticks_sent > s.publish_empty_ticklist_after_s

\* one step of main_loop of btu_main.py (with post_btu_data) from the
\* position pc at the clock t
btu_main_loop(s, pc, t) ==
    CASE pc = "sleep" ->
            [s |-> s, pc |-> "check"]
      [] pc = "check" ->
            IF ticklist_due(s, t)
            THEN [s |-> s, pc |-> "set_guard"]
            ELSE [s |-> s, pc |-> "sleep"]
      [] pc = "set_guard" ->
            [s |-> [s EXCEPT !.actively_publishing = TRUE], pc |-> "trim"]
      [] pc = "trim" ->
            IF /\ Len(s.relative_us_list_list) > 1
               /\ Len(s.relative_us_list_list[1]) < 2
               /\ Len(s.relative_us_list_list[2]) > 0
            THEN [s |-> [s EXCEPT !.relative_us_list_list =
                                      Tail(s.relative_us_list_list)],
                  pc |-> "post"]
            ELSE [s |-> s, pc |-> "post"]
      [] pc = "post" ->
            [s |-> s, pc |-> "clear"]
      [] pc = "clear" ->
            [s |-> [s EXCEPT !.first_tick_us = PyNone,
                             !.relative_us_list = <<>>,
                             !.relative_us_list_list = <<>>],
             pc |-> "release_guard"]
      [] pc = "release_guard" ->
            [s |-> release_guard(s), pc |-> "stamp"]
      [] pc = "stamp" ->
            [s |-> [s EXCEPT !.last_ticks_sent = utime_time(t)],
             pc |-> "sleep"]

\* the fields of self after __init__ at the clock 0
btu_constructed ==
    [publish_ticklist_period_s |-> DEFAULT_PUBLISH_TICKLIST_PERIOD_S,
     publish_empty_ticklist_after_s |-> DEFAULT_PUBLISH_EMPTY_TICKLIST_AFTER_S,
     relative_us_list |-> <<>>, first_tick_us |-> PyNone,
     last_ticks_sent |-> 0,
     actively_publishing |-> FALSE, measuring_flow |-> FALSE,
     relative_us_list_list |-> <<>>]

\* the BTU meter before start(): main_loop "off", the clock at 0, no pulse;
\* payload is history, the RelativeMicrosecondListList that ujson.dumps
\* wrote into the request main_loop is making
bobs_started == [pc |-> "off", t |-> 0, pulses |-> 0, payload |-> <<>>]

(***************************************************************************)
(* State.                                                                  *)
(***************************************************************************)
VARIABLES
    fs,            \* the firmware slots on flash
    bootErr,       \* boot.py ended in an OSError at the last boot
    pc,            \* where the device is: "boot", "update_code",
                   \* "update_app_config", "main_loop" or "halted"
    cfg,           \* the configuration fields of self
    cfgFile,       \* app_config.json
    last,          \* history: the step taken last
    pre,           \* history: fs and cfg before that step
    rsp,           \* history: the Transport answer that step got
    replaced,      \* history: main.py before the most recent applied update
    savedPrevious, \* history: main_previous.py when the rollback was staged
    reed,          \* the reed meter: the fields of self and the locals of
                   \* main_loop, with the history fields of debounce
    now,           \* the millisecond clock (utime.ticks_ms())
    obs,           \* history of the reed meter's pin: the last pass of the
                   \* main loop and the samples read so far
    slow,          \* the slow meter: the fields of self
    sobs,          \* history of the slow meter: the last pulse_callback and
                   \* the millisecond clock (utime.time_ns() // 1_000_000)
    hall,          \* the hall meter: the fields of self, with the history
                   \* fields of post_hz
    hpc,           \* the hall meter: the position of main_loop, "off"
                   \* before start()
    hnow,          \* the hall meter: the microsecond clock (utime.ticks_us())
    hobs,          \* history of the hall meter: the pulses seen and the
                   \* lists posted
    btu,           \* the BTU meter: the flow fields of self
    bobs           \* the BTU meter: the position of main_loop, the
                   \* microsecond clock and the number of pulses seen

fwVars == <<fs, bootErr, pc, cfg, cfgFile, last, pre, rsp, replaced, savedPrevious>>

NoRsp == [exc |-> FALSE, status |-> 0, kind |-> "none"]

(***************************************************************************)
(* A provisioned device: provisioner.py has written boot.py, main.py and   *)
(* app_config.json and removed main_previous.py; the device is reset.      *)
(***************************************************************************)
FwInit ==
    /\ \E i \in Images :
          fs = [n \in Slots |-> IF n = MAIN THEN i ELSE None]
    /\ bootErr = FALSE
    /\ pc = "boot"
    /\ cfgFile = [ActorNodeName |-> DEFAULT_ACTOR_NAME,
                  AlphaTimes100 |-> DEFAULT_ALPHA_TIMES_100]
    /\ cfg = load_app_config(cfgFile)
    /\ last = "init"
    /\ pre = [fs |-> fs, cfg |-> cfg]
    /\ rsp = NoRsp
    /\ replaced = None
    /\ savedPrevious = None

\* A reset: boot.py runs, then main.py (when there is one) constructs the
\* device object, which loads app_config.json, and calls start().
Boot ==
    /\ pc = "boot"
    /\ LET r == bootpy_code(fs) IN
          /\ fs' = r.fs
          /\ bootErr' = r.err
          /\ pc' = IF Exists(r.fs, MAIN) THEN "update_code" ELSE "halted"
          /\ cfg' = IF Exists(r.fs, MAIN) THEN load_app_config(cfgFile) ELSE cfg
    /\ replaced' = IF BootPath(fs) = "update" THEN fs[MAIN] ELSE replaced
    /\ last' = "boot"
    /\ pre' = [fs |-> fs, cfg |-> cfg]
    /\ UNCHANGED <<cfgFile, rsp, savedPrevious>>

\* start(): self.update_code(); an exception of urequests.post is not caught
\* and ends main.py
UpdateCode ==
    /\ pc = "update_code"
    /\ \E r \in FwResponses :
          LET u == update_code(fs, r) IN
             /\ fs' = u.fs
             /\ pc' = CASE u.next = "reset" -> "boot"
                        [] u.next = "return" -> "update_app_config"
                        [] OTHER -> "halted"
             /\ rsp' = r
    /\ last' = "update_code"
    /\ pre' = [fs |-> fs, cfg |-> cfg]
    /\ UNCHANGED <<bootErr, cfg, cfgFile, replaced, savedPrevious>>

\* start(): self.update_app_config(), then the main loop is entered
UpdateAppConfig ==
    /\ pc = "update_app_config"
    /\ \E r \in CfgResponses :
          LET u == update_app_config(fs, cfg, cfgFile, r) IN
             /\ fs' = u.fs
             /\ cfg' = u.cfg
             /\ cfgFile' = u.cfgFile
             /\ pc' = CASE u.next = "reset" -> "boot"
                        [] u.next = "return" -> "main_loop"
                        [] OTHER -> "halted"
             /\ savedPrevious' = IF u.next = "reset" THEN fs[PREVIOUS]
                                 ELSE savedPrevious
             /\ rsp' = r
    /\ last' = "update_app_config"
    /\ pre' = [fs |-> fs, cfg |-> cfg]
    /\ UNCHANGED <<bootErr, replaced>>

\* The periodic firmware check of the timer-driven variant, run while the
\* device is in its main loop; an exception ends the callback only.
PeriodicUpdateCode ==
    /\ pc = "main_loop"
    /\ \E r \in FwResponses :
          LET u == update_code(fs, r) IN
             /\ fs' = u.fs
             /\ pc' = IF u.next = "reset" THEN "boot" ELSE "main_loop"
             /\ rsp' = r
    /\ last' = "update_code"
    /\ pre' = [fs |-> fs, cfg |-> cfg]
    /\ UNCHANGED <<bootErr, cfg, cfgFile, replaced, savedPrevious>>

\* The device is power-cycled while main.py runs or after it has ended.
PowerCycle ==
    /\ pc \in {"update_code", "update_app_config", "main_loop", "halted"}
    /\ pc' = "boot"
    /\ last' = "power"
    /\ pre' = [fs |-> fs, cfg |-> cfg]
    /\ rsp' = NoRsp
    /\ UNCHANGED <<fs, bootErr, cfg, cfgFile, replaced, savedPrevious>>

reedVars == <<reed, now, obs>>

slowVars == <<slow, sobs>>

hallVars == <<hall, hpc, hnow, hobs>>

btuVars == <<btu, bobs>>

meterVars == <<reedVars, slowVars, hallVars, btuVars>>

vars == <<fwVars, meterVars>>

\* state_init has left its loop: since the clock was last read there the pin
\* has read 0
obs_started ==
    [step |-> "none", reading |-> 0, pre |-> reed_constructed,
     low_at |-> 0, high_at |-> PyNone, high_from |-> PyNone,
     was_entered |-> 0, entered |-> 0, until |-> MaxTime]

\* history of one pass of main_loop that read current_reading at
\* current_time_ms and took the meter from s to s1: low_at and high_at are
\* the clock readings of the latest sample that read 0 and 1, high_from the
\* one of the first sample of the latest unbroken run of 1s, entered the
\* one of the latest change of pin_state and was_entered the one of the
\* change before this pass; until is the last clock reading explored
observe(o, s, s1, current_reading, current_time_ms) ==
    [step |-> "pass", reading |-> current_reading, pre |-> s,
     low_at |-> IF current_reading = 0 THEN current_time_ms ELSE o.low_at,
     high_at |-> IF current_reading = 1 THEN current_time_ms ELSE o.high_at,
     high_from |-> IF current_reading = 1 /\ (o.reading = 0 \/ o.high_at = PyNone)
                   THEN current_time_ms ELSE o.high_from,
     was_entered |-> o.entered,
     entered |-> IF s1.pin_state # s.pin_state THEN current_time_ms
                 ELSE o.entered,
     until |-> o.until]

\* the reed meter before its main loop has started
ReedIdle == reed = reed_constructed /\ now = 0 /\ obs = obs_started

\* the slow meter before any notification
SlowIdle == slow = slow_constructed /\ sobs = sobs_started

\* the hall meter before start()
HallIdle ==
    hall = hall_constructed /\ hpc = "off" /\ hnow = 0 /\ hobs = hobs_started

\* the BTU meter before start()
BtuIdle == btu = btu_constructed /\ bobs = bobs_started

MetersIdle == ReedIdle /\ SlowIdle /\ HallIdle /\ BtuIdle

Init == FwInit /\ MetersIdle

Next ==
    \/ Boot /\ UNCHANGED meterVars
    \/ UpdateCode /\ UNCHANGED meterVars
    \/ UpdateAppConfig /\ UNCHANGED meterVars
    \/ PeriodicUpdateCode /\ UNCHANGED meterVars
    \/ PowerCycle /\ UNCHANGED meterVars

Spec == Init /\ [][Next]_vars

(***************************************************************************)
(* The boot loader alone, started on every content of the four slots.      *)
(***************************************************************************)
BootInit ==
    /\ fs \in Files
    /\ bootErr = FALSE
    /\ pc = "boot"
    /\ cfgFile = [ActorNodeName |-> DEFAULT_ACTOR_NAME,
                  AlphaTimes100 |-> DEFAULT_ALPHA_TIMES_100]
    /\ cfg = load_app_config(cfgFile)
    /\ last = "init"
    /\ pre = [fs |-> fs, cfg |-> cfg]
    /\ rsp = NoRsp
    /\ replaced = None
    /\ savedPrevious = None
    /\ MetersIdle

BootNext == Boot /\ UNCHANGED meterVars

SpecBoot == BootInit /\ [][BootNext]_vars

(***************************************************************************)
(* The start-up sequence alone (boot.py, update_code, update_app_config),  *)
(* every step of which the device takes: it is one sequential program.     *)
(***************************************************************************)
LiveNext ==
    \/ Boot /\ UNCHANGED meterVars
    \/ UpdateCode /\ UNCHANGED meterVars
    \/ UpdateAppConfig /\ UNCHANGED meterVars

SpecLive ==
    /\ Init
    /\ [][LiveNext]_vars
    /\ WF_vars(Boot /\ UNCHANGED meterVars)
    /\ WF_vars(UpdateCode /\ UNCHANGED meterVars)
    /\ WF_vars(UpdateAppConfig /\ UNCHANGED meterVars)

(***************************************************************************)
(* Properties of the firmware slots.                                       *)
(***************************************************************************)
\* the last step was a boot that took the given branch of boot.py
Booted(path) == last = "boot" /\ BootPath(pre.fs) = path

\* C1: after a boot that found main_update.py holding image B, main.py
\* holds B, main_previous.py holds exactly what main.py held before the
\* boot (an older main_previous.py is gone) and main_update.py is absent.
C1_UpdatePath ==
    Booted("update") =>
        /\ fs[MAIN] = pre.fs[UPDATE]
        /\ fs[PREVIOUS] = pre.fs[MAIN]
        /\ ~Exists(fs, UPDATE)
        /\ ~bootErr

\* C1 happens: an update was applied over an older, different previous
C1_Witness ==
    /\ Booted("update")
    /\ Exists(pre.fs, PREVIOUS)
    /\ pre.fs[PREVIOUS] # pre.fs[MAIN]
    /\ pre.fs[UPDATE] # pre.fs[MAIN]
    /\ fs[PREVIOUS] = pre.fs[MAIN]

\* C2: after a boot that found no main_update.py and found main_revert.py,
\* the old main.py is discarded (no slot receives it), main.py holds the
\* image that was main_previous.py when the rollback was staged, and
\* main_revert.py is absent.
C2_RollbackPath ==
    Booted("revert") =>
        /\ fs[MAIN] = savedPrevious
        /\ fs[MAIN] = pre.fs[REVERT]
        /\ fs[PREVIOUS] = pre.fs[PREVIOUS]
        /\ fs[UPDATE] = pre.fs[UPDATE]
        /\ ~Exists(fs, REVERT)
        /\ ~bootErr

\* C2 happens: a rollback replaced a different current image
C2_Witness ==
    /\ Booted("revert")
    /\ Exists(pre.fs, MAIN)
    /\ pre.fs[MAIN] # fs[MAIN]
    /\ fs[MAIN] = savedPrevious

\* C3: round trip.  The boot after the firmware check staged bytes B yields
\* main.py == B and main_previous.py == the old main.py; the boot after a
\* rollback was then staged yields main.py == that old main.py again.
C3_RoundTrip ==
    /\ Booted("update") =>
          /\ fs[MAIN] = rsp.content
          /\ fs[PREVIOUS] = replaced
          /\ replaced = pre.fs[MAIN]
    /\ Booted("revert") => fs[MAIN] = replaced

\* C3 happens: image A was updated to a different B and A is current again
C3_Witness ==
    /\ Booted("revert")
    /\ fs[MAIN] = replaced
    /\ pre.fs[MAIN] # replaced
    /\ Exists(pre.fs, MAIN)

\* C4: at most one of main_update.py and main_revert.py exists.
C4_OneStaged == ~(Exists(fs, UPDATE) /\ Exists(fs, REVERT))

\* C4 happens: a rollback is staged on a device that had applied an update
C4_Witness ==
    /\ Exists(fs, REVERT)
    /\ ~Exists(fs, UPDATE)
    /\ replaced # None
    /\ pc = "boot"

\* C5: main_previous.py, when it exists, holds exactly the image the
\* present main.py replaced at the most recent update, and it is the only
\* older image kept (main_revert.py does not exist beside it).
C5_OneRollbackLevel ==
    Exists(fs, PREVIOUS) =>
        /\ fs[PREVIOUS] = replaced
        /\ ~Exists(fs, REVERT)

\* C5 happens: a second update has replaced the image saved by the first
C5_Witness ==
    /\ Booted("update")
    /\ Exists(pre.fs, PREVIOUS)
    /\ pre.fs[PREVIOUS] # fs[PREVIOUS]
    /\ fs[PREVIOUS] = replaced

\* C6: whatever subset of the four slots exists, boot.py ends without an
\* OSError, and main.py exists afterwards when main.py, main_update.py or
\* main_revert.py existed before.
C6_BootRobust ==
    last = "boot" =>
        /\ ~bootErr
        /\ (Exists(pre.fs, MAIN) \/ Exists(pre.fs, UPDATE) \/ Exists(pre.fs, REVERT))
              => Exists(fs, MAIN)

\* C6 happens: boot.py ran with only main_update.py present
C6_Witness ==
    /\ last = "boot"
    /\ Exists(pre.fs, UPDATE)
    /\ ~Exists(pre.fs, MAIN)
    /\ ~Exists(pre.fs, REVERT)
    /\ ~Exists(pre.fs, PREVIOUS)
    /\ Exists(fs, MAIN)

\* the Transport answered the firmware check with status 200 and a body
\* that is not JSON-decodable
ImageAnswer(r) == ~r.exc /\ r.status = HTTP_OK /\ ~JsonDecodable(r)

\* C7: update_code writes the body to main_update.py and resets the device
\* if and only if the answer has status 200 and a body that is not
\* JSON-decodable; otherwise no slot is written and the device is not reset.
C7_UpdateCodeIff ==
    last = "update_code" =>
        IF ImageAnswer(rsp)
        THEN fs = [pre.fs EXCEPT ![UPDATE] = rsp.content] /\ pc = "boot"
        ELSE fs = pre.fs /\ pc # "boot"

\* C7 happens: a body that is not UTF-8 was staged as the new image
C7_Witness ==
    /\ last = "update_code"
    /\ rsp.kind = "binary"
    /\ rsp.status = HTTP_OK
    /\ fs[UPDATE] = rsp.content
    /\ pc = "boot"

\* update_app_config ran into its except branch
HandshakeFailed(r) ==
    \/ r.exc
    \/ /\ r.status = HTTP_OK
       /\ \/ r.kind \in {"notjson", "list"}
          \/ r.kind = "dict" /\ r.alphaKind = BadType

\* on a failed handshake the rollback is staged and the device reset if and
\* only if main_previous.py exists; otherwise the slots are untouched and
\* the start-up goes on to the main loop
C8_StagingIff ==
    (last = "update_app_config" /\ HandshakeFailed(rsp)) =>
        IF Exists(pre.fs, PREVIOUS)
        THEN /\ fs = [pre.fs EXCEPT ![REVERT] = pre.fs[PREVIOUS], ![PREVIOUS] = None]
             /\ pc = "boot"
        ELSE /\ fs = pre.fs
             /\ pc = "main_loop"

\* C8: when the configuration handshake fails with an exception, a rollback
\* is staged and the device reset if and only if main_previous.py exists;
\* when it does not exist nothing is staged, the device is not reset and
\* the start-up continues with the last-persisted configuration.
C8_HandshakeFailure ==
    (last = "update_app_config" /\ HandshakeFailed(rsp)) =>
        IF Exists(pre.fs, PREVIOUS)
        THEN /\ fs = [pre.fs EXCEPT ![REVERT] = pre.fs[PREVIOUS], ![PREVIOUS] = None]
             /\ pc = "boot"
        ELSE /\ fs = pre.fs
             /\ pc = "main_loop"
             /\ cfg = load_app_config(cfgFile)

ReedInit ==
    /\ FwInit
    /\ fs[MAIN] = 1
    /\ now = 0
    /\ obs = obs_started
    /\ SlowIdle
    /\ HallIdle
    /\ BtuIdle
    /\ \E d \in 1 .. MaxDeadband :
          reed = [reed_constructed EXCEPT !.deadband_milliseconds = d,
                                          !.pin_state = DOWN]

\* one pass of the loop: the pin and the clock are read
MainLoopPass ==
    /\ reed.pin_state # PyNone
    /\ \E current_reading \in {0, 1}, dt \in 0 .. MaxStep :
          /\ now + dt <= obs.until
          /\ now' = now + dt
          /\ reed' = main_loop(reed, current_reading, now + dt)
          /\ obs' = observe(obs, reed, reed', current_reading, now + dt)
    /\ UNCHANGED <<fwVars, slowVars, hallVars, btuVars>>

SpecReed == ReedInit /\ [][MainLoopPass]_vars

\* C10: two ticks appended one after the other by the main loop are at
\* least deadband_milliseconds apart.
C10_TickSeparation ==
    reed.tick_gap # PyNone => reed.tick_gap >= reed.deadband_milliseconds

\* C10 happens: the second tick came as early as the state machine allows
\* with the longest deadband explored
C10_Witness ==
    /\ reed.tick_gap # PyNone
    /\ reed.deadband_milliseconds = MaxDeadband
    /\ reed.tick_gap = 2 * (reed.deadband_milliseconds + 1)
    /\ Len(reed.relative_ms_list) >= 2

\* a tick was appended to the list by the last pass
TickAppended ==
    /\ obs.step = "pass"
    /\ reed.relative_ms_list # <<>>
    /\ reed.relative_ms_list # obs.pre.relative_ms_list

\* C11: (as claimed) a run of high readings that ends before it has lasted
\* deadband_milliseconds has produced no tick.
C11_BounceEmitsNothing ==
    (/\ obs.step = "pass"
     /\ obs.reading = 0
     /\ obs.high_from # PyNone
     /\ now - obs.high_from < reed.deadband_milliseconds)
        => (reed.last_tick_abs = PyNone \/ reed.last_tick_abs < obs.high_from)

\* C11: (as the code has it) a tick is appended exactly by a pass that finds
\* the pin state DOWN and reads 1, before the reading has persisted; the
\* passes in going up, up and going down, bounces included, append none.
C11_TickOnFirstHigh ==
    obs.step = "pass" =>
        (TickAppended <=> (obs.pre.pin_state = DOWN /\ obs.reading = 1))

\* C11 happens: a tick was appended at the first high reading and the very
\* next reading, within the deadband, was low again
C11_Witness ==
    /\ obs.step = "pass"
    /\ obs.reading = 0
    /\ obs.pre.pin_state = GOING_UP
    /\ reed.last_tick_abs = obs.high_from
    /\ obs.high_at = obs.high_from
    /\ now - obs.high_from < reed.deadband_milliseconds
    /\ reed.relative_ms_list # <<>>

\* C12: going up -> up is taken only by a pass that reads 1 when going up
\* was entered at least deadband_milliseconds ago and no sample has read 0
\* for at least that long; going down -> down likewise with 0 and 1.
C12_ForwardAfterStable ==
    obs.step = "pass" =>
        /\ (obs.pre.pin_state = GOING_UP /\ reed.pin_state = UP) =>
              /\ obs.reading = 1
              /\ now - obs.was_entered >= reed.deadband_milliseconds
              /\ now - obs.low_at >= reed.deadband_milliseconds
        /\ (obs.pre.pin_state = GOING_DOWN /\ reed.pin_state = DOWN) =>
              /\ obs.reading = 0
              /\ now - obs.was_entered >= reed.deadband_milliseconds
              /\ now - obs.high_at >= reed.deadband_milliseconds

\* C12 happens: going up -> up was taken after a reading of 0 had restarted
\* the wait, as soon as the code allows
C12_Witness ==
    /\ obs.step = "pass"
    /\ obs.pre.pin_state = GOING_UP
    /\ reed.pin_state = UP
    /\ obs.low_at > obs.was_entered
    /\ now - obs.low_at = reed.deadband_milliseconds + 1

\* C13: (as claimed) a reading that bounces back takes going up back to
\* down and going down back to up.
C13_BounceReturns ==
    obs.step = "pass" =>
        /\ (obs.pre.pin_state = GOING_UP /\ obs.reading = 0) =>
              reed.pin_state = DOWN
        /\ (obs.pre.pin_state = GOING_DOWN /\ obs.reading = 1) =>
              reed.pin_state = UP

\* C13: (as the code has it) a reading that bounces back leaves the pin
\* state where it is and restarts the wait: going up is left only for up,
\* going down only for down.
C13_BounceStays ==
    obs.step = "pass" =>
        /\ obs.pre.pin_state = GOING_UP =>
              /\ reed.pin_state \in {GOING_UP, UP}
              /\ obs.reading = 0 =>
                    (reed.pin_state = GOING_UP /\ reed.time_since_1 = now)
        /\ obs.pre.pin_state = GOING_DOWN =>
              /\ reed.pin_state \in {GOING_DOWN, DOWN}
              /\ obs.reading = 1 =>
                    (reed.pin_state = GOING_DOWN /\ reed.time_since_0 = now)

\* C13 happens: a reading of 1 in going down, within the deadband
C13_Witness ==
    /\ obs.step = "pass"
    /\ obs.pre.pin_state = GOING_DOWN
    /\ obs.reading = 1
    /\ now - obs.was_entered < reed.deadband_milliseconds
    /\ reed.pin_state = GOING_DOWN

(***************************************************************************)
(* The slow meter, constructed with the DeadbandMilliseconds that          *)
(* app_config.json gave and with or without PublishGpm: the pins'          *)
(* interrupts call pulse_callback.                                         *)
(***************************************************************************)
SlowInit ==
    /\ FwInit
    /\ fs[MAIN] = 1
    /\ ReedIdle
    /\ HallIdle
    /\ BtuIdle
    /\ sobs = sobs_started
    /\ \E d \in 1 .. MaxDeadband, g \in BOOLEAN :
          slow = [slow_constructed EXCEPT !.deadband_milliseconds = d,
                                          !.publish_gpm = g]

\* a falling edge on one of the pins
PulseCallback ==
    /\ \E pin_number \in Pins, dt \in 0 .. MaxStep :
          /\ sobs.t + dt <= MaxSlowTime
          /\ slow' = slow_pulse_callback(slow, pin_number, sobs.t + dt)
          /\ sobs' = slow_observe(slow, slow', pin_number, sobs.t + dt)
    /\ UNCHANGED <<fwVars, reedVars, hallVars, btuVars>>

SpecSlow == SlowInit /\ [][PulseCallback]_vars

\* C14: the first notification of a pin becomes its latest timestamp; a
\* later one that comes deadband_milliseconds or less after the latest
\* timestamp of its pin changes no field (latest timestamps, smoothed and
\* posted rates); a notification that replaces the latest timestamp comes
\* more than deadband_milliseconds after it.
C14_InterruptDeadband ==
    sobs.step = "pulse" =>
        LET was == sobs.pre.latest_timestamps_ms[sobs.pin]
        IN  /\ was = PyNone =>
                  /\ slow.latest_timestamps_ms[sobs.pin] = sobs.t
                  /\ slow.exp_gpm = sobs.pre.exp_gpm
                  /\ slow.prev_gpm = sobs.pre.prev_gpm
            /\ (was # PyNone /\ sobs.t - was <= slow.deadband_milliseconds)
                  => slow = sobs.pre
            /\ (was # PyNone /\ sobs.t - was > slow.deadband_milliseconds)
                  => slow.latest_timestamps_ms[sobs.pin] = sobs.t
            /\ sobs.gap # PyNone => sobs.gap > slow.deadband_milliseconds

\* C14 happens: a notification exactly deadband_milliseconds after an
\* accepted one was rejected, on a pin whose rate had been posted
C14_Witness ==
    /\ sobs.step = "pulse"
    /\ sobs.pre.latest_timestamps_ms[sobs.pin] # PyNone
    /\ sobs.t - sobs.pre.latest_timestamps_ms[sobs.pin]
          = slow.deadband_milliseconds
    /\ slow.prev_gpm[sobs.pin] # PyNone
    /\ slow = sobs.pre

(***************************************************************************)
(* The hall meter from the end of start(): the interrupt and the timer are *)
(* armed and main_loop begins.  ReportHz is what app_config.json gave.     *)
(* The firmware slots and the other meters are left alone.                 *)
(***************************************************************************)
HallInit ==
    /\ FwInit
    /\ fs[MAIN] = 1
    /\ ReedIdle
    /\ SlowIdle
    /\ BtuIdle
    /\ hpc = "check_due"
    /\ hnow = 0
    /\ hobs = hobs_started
    /\ \E r \in BOOLEAN : hall = [hall_constructed EXCEPT !.report_hz = r]

\* the time from one pulse to the next, in microseconds: flow, and a pause
\* of more than no_flow_milliseconds
PulseGaps == {20000, 1500000}

\* the step of the clock without pulses, in microseconds: more than
\* publish_stamps_period_s and more than KEEP_ALIVE_AFTER_S
ClockSteps == {56000000}

\* time passes
HallClock ==
    /\ hpc # "off"
    /\ \E dt \in ClockSteps :
          /\ hnow + dt <= MaxHallUs
          /\ hnow' = hnow + dt
    /\ UNCHANGED <<hall, hpc, hobs>>

\* a falling edge of the pin: the interrupt runs pulse_callback between two
\* steps of main_loop
HallPulse ==
    /\ hpc # "off"
    /\ hobs.pulses < MaxPulses
    /\ \E dt \in PulseGaps, ok \in BOOLEAN :
          /\ hnow + dt <= MaxHallUs
          /\ hnow' = hnow + dt
          /\ hall' = pulse_callback(hall, hnow + dt, ok)
    /\ hobs' = hall_observe_pulse(hobs, hall, hall')
    /\ UNCHANGED hpc

\* the keep-alive timer fires
HallKeepAlive ==
    /\ hpc # "off"
    /\ \E ok \in BOOLEAN : hall' = keep_alive(hall, hnow, ok)
    /\ UNCHANGED <<hpc, hnow, hobs>>

\* main_loop takes its next step
HallMainLoop ==
    /\ hpc # "off"
    /\ \E ok \in BOOLEAN :
          /\ hall' = hall_main_loop(hall, hpc, hnow, ok).s
          /\ hpc' = hall_main_loop(hall, hpc, hnow, ok).pc
          /\ hobs' = hall_observe_main(hobs, hall', hpc, ok)
    /\ UNCHANGED hnow

HallNext ==
    \/ HallClock /\ UNCHANGED <<fwVars, reedVars, slowVars, btuVars>>
    \/ HallPulse /\ UNCHANGED <<fwVars, reedVars, slowVars, btuVars>>
    \/ HallKeepAlive /\ UNCHANGED <<fwVars, reedVars, slowVars, btuVars>>
    \/ HallMainLoop /\ UNCHANGED <<fwVars, reedVars, slowVars, btuVars>>

SpecHall == HallInit /\ [][HallNext]_vars

(***************************************************************************)
(* The reed meter in its main loop or the hall meter after start().        *)
(***************************************************************************)
MetersInit == ReedInit \/ HallInit

MetersNext == MainLoopPass \/ HallNext

SpecMeters == MetersInit /\ [][MetersNext]_vars

\* C15: the first pulse of the hall meter after start() sets first_tick_us
\* to the clock, makes the list [0] and leaves exp_hz and prev_hz as they
\* were; the first tick of the reed meter does the same with first_tick_ms,
\* exp_gpm and prev_gpm.
C15_FirstEdge ==
    [][/\ (hobs.pulses = 0 /\ hobs'.pulses = 1) =>
              /\ hall'.first_tick_us = hnow'
              /\ hall'.relative_us_list = <<0>>
              /\ hall'.exp_hz = hall.exp_hz
              /\ hall'.prev_hz = hall.prev_hz
       /\ (reed.last_tick_abs = PyNone /\ reed'.last_tick_abs # PyNone) =>
              /\ reed'.first_tick_ms = now'
              /\ reed'.relative_ms_list = <<0>>
              /\ reed'.exp_gpm = reed.exp_gpm
              /\ reed'.prev_gpm = reed.prev_gpm]_vars

\* C15 happens: the first pulse came after main_loop had posted a rate of 0
C15_Witness ==
    /\ hobs.pulses = 1
    /\ hall.relative_us_list = <<0>>
    /\ hall.first_tick_us = hnow
    /\ hall.prev_hz = 0
    /\ hall.hz_posts = 1

\* q[1] <= q[2] <= ...
NonDecreasing(q) == \A i \in 1 .. Len(q) - 1 : q[i] <= q[i + 1]

\* C16: the list of relative timestamps of the hall meter and the one of
\* the reed meter never decrease along the list and, when not empty, begin
\* with 0.
C16_BatchOrdered ==
    /\ NonDecreasing(hall.relative_us_list)
    /\ hall.relative_us_list # <<>> => hall.relative_us_list[1] = 0
    /\ NonDecreasing(reed.relative_ms_list)
    /\ reed.relative_ms_list # <<>> => reed.relative_ms_list[1] = 0

\* C16 happens: three pulses in one list, the last after a pause
C16_Witness ==
    /\ Len(hall.relative_us_list) = 3
    /\ hall.relative_us_list[2] > 0
    /\ hall.relative_us_list[3] - hall.relative_us_list[2] > 1000000

(***************************************************************************)
(* The BTU meter from the end of start(): the interrupt and the timers are *)
(* armed and main_loop begins.  Everything else is left alone.             *)
(***************************************************************************)
BtuInit ==
    /\ FwInit
    /\ fs[MAIN] = 1
    /\ ReedIdle
    /\ SlowIdle
    /\ HallIdle
    /\ \E after_s \in {DEFAULT_PUBLISH_EMPTY_TICKLIST_AFTER_S, 60} :
          btu = [btu_constructed EXCEPT
                     !.publish_empty_ticklist_after_s = after_s]
    /\ bobs = [bobs_started EXCEPT !.pc = "sleep"]

\* time passes
BtuClock ==
    /\ bobs.pc # "off"
    /\ \E dt \in {11000000} :
          /\ bobs.t + dt <= MaxBtuUs
          /\ bobs' = [bobs EXCEPT !.t = bobs.t + dt]
    /\ UNCHANGED btu

\* a falling edge of the pin
BtuPulse ==
    /\ bobs.pc # "off"
    /\ bobs.pulses < MaxPulses
    /\ \E dt \in PulseGaps :
          /\ bobs.t + dt <= MaxBtuUs
          /\ btu' = btu_pulse_callback(btu, bobs.t + dt)
          /\ bobs' = [bobs EXCEPT !.t = bobs.t + dt,
                                  !.pulses = bobs.pulses + 1]

\* the flow timer fires
BtuMeasureFlow ==
    /\ bobs.pc # "off"
    /\ Len(btu.relative_us_list_list) < MaxFlowLists
    /\ btu' = measure_flow(btu)
    /\ UNCHANGED bobs

\* the temperature timer fires
BtuMeasureTemp ==
    /\ bobs.pc # "off"
    /\ btu' = measure_temp(btu)
    /\ UNCHANGED bobs

\* main_loop takes its next step; the step from "post" serialises the
\* payload and begins the request, the step from "clear" follows its end
BtuMainLoop ==
    /\ bobs.pc # "off"
    /\ btu' = btu_main_loop(btu, bobs.pc, bobs.t).s
    /\ bobs' = [bobs EXCEPT
                    !.pc = btu_main_loop(btu, bobs.pc, bobs.t).pc,
                    !.payload = IF bobs.pc = "post"
                                THEN btu.relative_us_list_list
                                ELSE IF bobs.pc = "clear" THEN <<>>
                                ELSE bobs.payload]

BtuNext ==
    \/ BtuClock /\ UNCHANGED <<fwVars, reedVars, slowVars, hallVars>>
    \/ BtuPulse /\ UNCHANGED <<fwVars, reedVars, slowVars, hallVars>>
    \/ BtuMeasureFlow /\ UNCHANGED <<fwVars, reedVars, slowVars, hallVars>>
    \/ BtuMeasureTemp /\ UNCHANGED <<fwVars, reedVars, slowVars, hallVars>>
    \/ BtuMainLoop /\ UNCHANGED <<fwVars, reedVars, slowVars, hallVars>>

(***************************************************************************)
(* The two meters whose pulse_callback is held off by actively_publishing: *)
(* the hall meter or the BTU meter.                                        *)
(***************************************************************************)
GuardedInit == HallInit \/ BtuInit

GuardedNext == HallNext \/ BtuNext

SpecGuarded == GuardedInit /\ [][GuardedNext]_vars

\* C17: a pulse_callback of the hall meter that runs while
\* actively_publishing is set leaves the list, first_tick_us, exp_hz and
\* prev_hz as they were; one of the BTU meter leaves the list, first_tick_us
\* and the lists collected as they were.
C17_GuardedPush ==
    [][/\ (hobs'.pulses = hobs.pulses + 1 /\ hall.actively_publishing) =>
              /\ hall'.relative_us_list = hall.relative_us_list
              /\ hall'.first_tick_us = hall.first_tick_us
              /\ hall'.exp_hz = hall.exp_hz
              /\ hall'.prev_hz = hall.prev_hz
       /\ (bobs'.pulses = bobs.pulses + 1 /\ btu.actively_publishing) =>
              /\ btu'.relative_us_list = btu.relative_us_list
              /\ btu'.first_tick_us = btu.first_tick_us
              /\ btu'.relative_us_list_list = btu.relative_us_list_list]_vars

\* C17 happens: a pulse came between the setting of actively_publishing and
\* the post of a list that holds two pulses
C17_Witness ==
    /\ hall.actively_publishing
    /\ hpc = "post"
    /\ hobs.dropped = {3}
    /\ hobs.ids = <<1, 2>>
    /\ Len(hall.relative_us_list) = 2

\* C18: no pulse is in two posted lists, and a pulse that came while
\* actively_publishing was set is in no posted list and not in the list
\* being built.
C18_NoDuplicateNoLateEdge ==
    /\ \A i, j \in DOMAIN hobs.flushed :
          i # j => Range(hobs.flushed[i]) \cap Range(hobs.flushed[j]) = {}
    /\ \A i \in DOMAIN hobs.flushed :
          hobs.dropped \cap Range(hobs.flushed[i]) = {}
    /\ hobs.dropped \cap Range(hobs.ids) = {}

\* C18 happens: two lists were posted and the pulse between them came while
\* actively_publishing was set
C18_Witness ==
    /\ Len(hobs.flushed) = 2
    /\ hobs.flushed[1] = <<1>>
    /\ hobs.dropped = {2}
    /\ hobs.flushed[2] = <<3>>

\* C19: (as claimed) the pulses of a list whose post raised stay in the
\* list until a post delivers them.
C19_FailedBatchKept == hobs.unsent \subseteq Range(hobs.ids)

\* C20: a step that posts the rate (from update_hz, from keep_alive or in
\* main_loop; the Transport raising or not) ends with the smoothed rate the
\* post began with, and only pulse_callback and the update_hz of main_loop
\* change exp_hz; likewise post_gpm and exp_gpm of the reed meter, which
\* only a tick or the report of 0 gpm change.
C20_PostKeepsRate ==
    [][/\ hall'.hz_posts # hall.hz_posts => hall'.exp_hz = hall'.exp_at_post
       /\ hall'.exp_hz # hall.exp_hz =>
              (hobs'.pulses # hobs.pulses \/ hpc = "estimate")
       /\ reed'.gpm_posts # reed.gpm_posts =>
              reed'.exp_gpm = reed'.exp_at_post
       /\ reed'.exp_gpm # reed.exp_gpm =>
              \/ reed'.last_tick_abs # reed.last_tick_abs
              \/ reed'.tick_gap # reed.tick_gap
              \/ (reed'.published_0_gpm /\ ~reed.published_0_gpm)]_vars

\* C20 happens: the post of a rate above 0 raised
C20_Witness ==
    /\ hall.hz_posts = 1
    /\ ~hall.hz_ok
    /\ hall.exp_hz > 0
    /\ hall.exp_at_post = hall.exp_hz
    /\ hall.prev_hz = hall.exp_hz

(***************************************************************************)
(* The hall meter or the BTU meter with a main loop that keeps running.    *)
(***************************************************************************)
SpecGuardedLive ==
    /\ SpecGuarded
    /\ WF_vars(HallMainLoop
               /\ UNCHANGED <<fwVars, reedVars, slowVars, btuVars>>)
    /\ WF_vars(BtuMainLoop
               /\ UNCHANGED <<fwVars, reedVars, slowVars, hallVars>>)

\* C21: actively_publishing is set exactly while main_loop is between the
\* statement that sets it and the one that clears it, the post of the list
\* lying in between, and once set it is cleared again, whether the
\* Transport raised or not (hall meter and BTU meter).
C21_GuardScoped ==
    /\ [](hall.actively_publishing <=>
              hpc \in {"post", "clear_list", "clear_first", "stamp",
                       "release_guard"})
    /\ [](btu.actively_publishing <=>
              bobs.pc \in {"trim", "post", "clear", "release_guard"})
    /\ (hall.actively_publishing ~> ~hall.actively_publishing)
    /\ (btu.actively_publishing ~> ~btu.actively_publishing)

\* C21 happens: the post of the list raised and actively_publishing has
\* been cleared since
C21_Witness ==
    /\ hobs.unsent = {1}
    /\ hobs.flushed = <<(<<1>>)>>
    /\ ~hall.actively_publishing
    /\ hpc = "check_idle"

\* the lists of the BTU meter hold a tick
RecordedTicks ==
    \E i \in DOMAIN btu.relative_us_list_list :
        btu.relative_us_list_list[i] # <<>>

\* C22: the test of main_loop goes on to post exactly when (a) a list holds
\* ticks and more than publish_ticklist_period_s have passed since the last
\* post, or (b) no list holds a tick and more than
\* publish_empty_ticklist_after_s have passed; otherwise main_loop sleeps.
C22_DueExactly ==
    [][bobs.pc = "check" /\ bobs'.pc # "check"
       => LET elapsed == utime_time(bobs.t) - btu.last_ticks_sent
          IN  /\ bobs'.pc \in {"set_guard", "sleep"}
              /\ bobs'.pc = "set_guard" <=>
                    \/ RecordedTicks
                       /\ elapsed > btu.publish_ticklist_period_s
                    \/ ~RecordedTicks
                       /\ elapsed > btu.publish_empty_ticklist_after_s]_vars

\* C22 happens: with publish_ticklist_period_s = 10, lists with ticks are
\* about to be posted 11 s after the last post although
\* publish_empty_ticklist_after_s = 60
C22_Witness ==
    /\ bobs.pc = "set_guard"
    /\ RecordedTicks
    /\ btu.publish_ticklist_period_s = 10
    /\ btu.publish_empty_ticklist_after_s = 60
    /\ utime_time(bobs.t) - btu.last_ticks_sent = 11

\* C23: when no list holds a tick and more than
\* publish_empty_ticklist_after_s have passed since the last post, main_loop
\* posts the empty lists (unless ticks are recorded first), every time.
C23_SilenceReported ==
    (/\ bobs.pc \in {"sleep", "check"}
     /\ ~RecordedTicks
     /\ utime_time(bobs.t) - btu.last_ticks_sent
            > btu.publish_empty_ticklist_after_s)
    ~> (RecordedTicks \/ (bobs.pc = "post" /\ ~RecordedTicks))

\* C23 happens: empty lists are posted a second time, no pulse ever seen
C23_Witness ==
    /\ bobs.pc = "post"
    /\ ~RecordedTicks
    /\ bobs.pulses = 0
    /\ btu.last_ticks_sent > 0

(***************************************************************************)
(* The reed meter late in a steady flow: with a deadband of 1 ms the pin   *)
(* has given a tick every 4 ms since the clock read 0 (the shortest period *)
(* the debouncer lets through), 98 ticks are in the list, the rate was     *)
(* posted once, at the second tick, and the pin has just been found stably *)
(* low again.  The main loop goes on for MaxTime more milliseconds.        *)
(***************************************************************************)
ReedFullInit ==
    /\ FwInit
    /\ fs[MAIN] = 1
    /\ SlowIdle
    /\ HallIdle
    /\ BtuIdle
    /\ now = 392
    /\ reed = [reed_constructed EXCEPT
                   !.deadband_milliseconds = 1,
                   !.pin_state = DOWN,
                   !.time_since_1 = 388, !.time_since_0 = 390,
                   !.first_tick_ms = 0,
                   !.relative_ms_list = [k \in 1 .. 98 |-> 4 * (k - 1)],
                   !.exp_gpm = Gpm100(reed_constructed, 4),
                   !.prev_gpm = Gpm100(reed_constructed, 4),
                   !.exp_at_post = Gpm100(reed_constructed, 4),
                   !.gpm_posts = 1,
                   !.last_tick_abs = 388, !.tick_gap = 4]
    /\ obs = [obs_started EXCEPT !.low_at = 392, !.high_at = 390,
                                 !.high_from = 388, !.was_entered = 390,
                                 !.entered = 392, !.until = 392 + MaxTime]

SpecReedFull == ReedFullInit /\ [][MainLoopPass]_vars

\* C24: a pass of the main loop that starts with POST_LIST_LENGTH ticks in
\* the list posts and clears the list before it reads the pin, so the list
\* never holds more than POST_LIST_LENGTH ticks.
C24_FlushAtLength ==
    /\ Len(reed.relative_ms_list) <= POST_LIST_LENGTH
    /\ obs.step = "pass" /\ Len(obs.pre.relative_ms_list) >= POST_LIST_LENGTH
       => /\ reed.list_posts = obs.pre.list_posts + 1
          /\ Len(reed.relative_ms_list) <= 1

\* C24 happens: the list reached POST_LIST_LENGTH and the next pass posted
\* and cleared it
C24_Witness ==
    /\ obs.step = "pass"
    /\ Len(obs.pre.relative_ms_list) = POST_LIST_LENGTH
    /\ reed.list_posts = 1
    /\ reed.relative_ms_list = <<>>
    /\ reed.first_tick_ms = PyNone

(***************************************************************************)
(* The hall meter with a keep-alive timer that keeps firing and a main     *)
(* loop that keeps running.                                                *)
(***************************************************************************)
SpecHallLive ==
    /\ SpecHall
    /\ WF_vars(HallKeepAlive
               /\ UNCHANGED <<fwVars, reedVars, slowVars, btuVars>>)
    /\ WF_vars(HallMainLoop
               /\ UNCHANGED <<fwVars, reedVars, slowVars, btuVars>>)

\* more than KEEP_ALIVE_AFTER_S seconds have passed since the rate was last
\* posted
HzPostTimedOut == utime_time(hnow) - hall.hz_posted_time > KEEP_ALIVE_AFTER_S

\* a step that changes nothing but the fields of the hall meter: the
\* keep-alive timer has fired and done something
KeepAlivePosted ==
    /\ hall' # hall
    /\ UNCHANGED <<hpc, hnow, hobs>>

RateDeltasMs == {20, 40, 500, 1500}

RateInit ==
    /\ FwInit
    /\ fs[MAIN] = 1
    /\ SlowIdle
    /\ BtuIdle
    /\ hpc = "off" /\ hnow = 0 /\ hobs = hobs_started
    /\ now = 0 /\ obs = obs_started
    /\ \E a \in {DEFAULT_ALPHA_TIMES_100, 100},
          hz \in {<<0, PyNone>>, <<0, 0>>, <<0, 80>>, <<150, 100>>,
                  <<150, 150>>, <<5000, 5000>>, <<5000, 4950>>},
          gpm \in {<<0, PyNone>>, <<0, 8>>, <<897, 890>>, <<22440, 22445>>} :
          /\ hall = [hall_constructed EXCEPT !.alpha_times_100 = a,
                                             !.exp_hz = hz[1],
                                             !.prev_hz = hz[2]]
          /\ reed = [reed_constructed EXCEPT
                         !.alpha_times_100 = a,
                         !.no_flow_milliseconds = DEFAULT_NO_FLOW_MILLISECONDS,
                         !.exp_gpm = gpm[1],
                         !.prev_gpm = gpm[2]]

\* a pulse delta_ms after the one before
RateUpdate ==
    /\ hpc = "off"
    /\ reed.pin_state = PyNone
    /\ hobs.pulses < MaxPulses
    /\ \E delta_ms \in RateDeltasMs, ok \in BOOLEAN :
          /\ hnow' = hnow + delta_ms * 1000
          /\ now' = now + delta_ms
          /\ hall' = update_hz(hall, delta_ms * 1000, hnow', ok)
          /\ reed' = update_gpm(reed, delta_ms, now')
    /\ hobs' = [hobs EXCEPT !.pulses = hobs.pulses + 1]
    /\ UNCHANGED <<fwVars, slowVars, btuVars, hpc, obs>>

SpecRate == RateInit /\ [][RateUpdate]_vars

\* C26: a delta above no_flow_milliseconds sets the smoothed rate to 0,
\* whatever it was (update_hz and update_gpm).
C26_ResetOnLongDelta ==
    [][/\ hnow' - hnow > hall.no_flow_milliseconds * 1000
          => hall'.exp_hz = 0
       /\ now' - now > reed.no_flow_milliseconds
          => reed'.exp_gpm = 0]_vars

\* C26 happens: a rate above 0, left by a pulse 20 ms after the one before,
\* was set to 0 by a pulse 1.5 s later
C26_Witness ==
    /\ hobs.pulses = 2
    /\ hnow = 1520000
    /\ hall.exp_hz = 0
    /\ reed.exp_gpm = 0

\* C27: when the smoothed rate is 0 and the delta is not above
\* no_flow_milliseconds, the new smoothed rate is the rate of this delta
\* alone (update_hz and update_gpm).
C27_RestartFromRaw ==
    [][/\ /\ hnow' > hnow
          /\ hnow' - hnow <= hall.no_flow_milliseconds * 1000
          /\ hall.exp_hz = 0
          => hall'.exp_hz = 100000000 \div (hnow' - hnow)
       /\ /\ now' > now
          /\ now' - now <= reed.no_flow_milliseconds
          /\ reed.exp_gpm = 0
          => reed'.exp_gpm = Gpm100(reed, now' - now)]_vars

\* C27 happens: after a reset to 0 by a delta of 1.5 s, a delta of 40 ms
\* gave 25 Hz
C27_Witness ==
    /\ hobs.pulses = 2
    /\ hnow = 1540000
    /\ hall.exp_hz = 2500
    /\ reed.exp_gpm = Gpm100(reed, 40)

\* C28: for a smoothed rate other than 0 and a delta not above
\* no_flow_milliseconds, the new smoothed rate is
\* tw_alpha * hz + (1 - tw_alpha) * exp_hz with
\* tw_alpha = min(1, (delta_ms / exp_weighting_ms) * alpha) (tw_alpha in
\* thousandths, the rate in 1/100 Hz, rounded down); it lies between exp_hz
\* and hz, and is hz when (delta_ms / exp_weighting_ms) * alpha >= 1.
C28_WeightedAverage ==
    [][/\ hnow' > hnow
       /\ hnow' - hnow <= hall.no_flow_milliseconds * 1000
       /\ hall.exp_hz # 0
       => LET delta_us == hnow' - hnow
              hz == 100000000 \div delta_us
              tw == (delta_us * hall.alpha_times_100)
                        \div (hall.exp_weighting_ms * 100)
              tw_alpha == IF tw < 1000 THEN tw ELSE 1000
          IN  /\ hall'.exp_hz =
                    (tw_alpha * hz + (1000 - tw_alpha) * hall.exp_hz)
                        \div 1000
              /\ \/ hall.exp_hz <= hall'.exp_hz /\ hall'.exp_hz <= hz
                 \/ hz <= hall'.exp_hz /\ hall'.exp_hz <= hall.exp_hz
              /\ delta_us * hall.alpha_times_100
                     >= hall.exp_weighting_ms * 100000
                 => hall'.exp_hz = hz]_vars

\* C28 happens: with exp_weighting_ms = 40 and alpha = 0.1, a delta of
\* 500 ms replaced the rate left by a delta of 20 ms with its own, 2 Hz
C28_Witness ==
    /\ hobs.pulses = 2
    /\ hnow = 520000
    /\ hall.exp_weighting_ms = 40
    /\ hall.alpha_times_100 = 10
    /\ hall.exp_hz = 200

SpecReedFullLive == SpecReedFull /\ WF_vars(MainLoopPass)

\* C30: whenever the last tick is more than no_flow_milliseconds ago, the
\* main loop gives update_gpm the synthetic delta: the smoothed rate becomes
\* 0 and the last posted rate is within the threshold of 0, whether or not
\* the list has just been posted.
C30_ZeroAfterSilence ==
    (/\ reed.last_tick_abs # PyNone
     /\ now - reed.last_tick_abs > reed.no_flow_milliseconds)
    ~> (/\ reed.exp_gpm = 0
        /\ reed.prev_gpm # PyNone
        /\ Abs(reed.prev_gpm) <= reed.async_delta_gpm_times_100)

(***************************************************************************)
(* The hall meter under a train of pulses: up to MaxEdges falling edges,   *)
(* each a gap of EdgeGapsUs after the one before, no main loop in between. *)
(***************************************************************************)
EdgeGapsUs == {120000, 125000, 255000, 1000000, 1000001}

EdgeTrain ==
    /\ hpc # "off"
    /\ hobs.pulses < MaxEdges
    /\ \E gap \in EdgeGapsUs, ok \in BOOLEAN :
          /\ hnow' = hnow + gap
          /\ hall' = pulse_callback(hall, hnow', ok)
          /\ hobs' = hall_observe_pulse(hobs, hall, hall')
    /\ UNCHANGED <<fwVars, reedVars, slowVars, btuVars, hpc>>

SpecEdges == HallInit /\ [][EdgeTrain]_vars

\* C31 as stated: after five edges at 0, 120, 245, 500 and 1500 ms with
\* no_flow_milliseconds = 1000 the smoothed rate is 0.
C31_ResetAtGapOf1000 ==
    /\ hall.no_flow_milliseconds = 1000
    /\ hall.relative_us_list = <<0, 120000, 245000, 500000, 1500000>>
    => hall.exp_hz = 0

\* C31: with no_flow_milliseconds = 1000, the fifth of five edges at 0, 120,
\* 245, 500 and 1500 ms does not reset the smoothed rate, 1000 ms not being
\* more than the timeout: it leaves 1 Hz, the rate of that gap alone.  With
\* the fifth edge at 1500.001 ms the rate is reset to 0.
C31_ResetAboveGapOf1000 ==
    /\ hall.no_flow_milliseconds = 1000
       => /\ hall.relative_us_list = <<0, 120000, 245000, 500000, 1500000>>
             => hall.exp_hz = 100
          /\ hall.relative_us_list = <<0, 120000, 245000, 500000, 1500001>>
             => hall.exp_hz = 0

\* C31 happens: the five edges of the scenario have been taken
C31_Witness ==
    /\ hall.no_flow_milliseconds = 1000
    /\ hall.relative_us_list = <<0, 120000, 245000, 500000, 1500000>>
    /\ hobs.pulses = 5

\* C32: the rate is handed to the Transport by steps of main_loop only,
\* never by pulse_callback or by the keep-alive timer.
C32_TransportOnMainLoopOnly ==
    [][hall'.hz_posts # hall.hz_posts => hpc' # hpc]_vars

\* C33: the boot that applies a rollback leaves no main_previous.py; only
\* a boot that applies an update brings one back; and while there is none,
\* a failed configuration handshake changes no slot and goes on to the main
\* loop, without a reset.  So each applied update is rolled back at most
\* once.
C33_RollbackOnce ==
    [][/\ (last' = "boot" /\ BootPath(fs) = "revert")
              => ~Exists(fs', PREVIOUS)
       /\ (~Exists(fs, PREVIOUS) /\ Exists(fs', PREVIOUS))
              => (last' = "boot" /\ BootPath(fs) = "update")
       /\ (/\ pc = "update_app_config"
           /\ last' = "update_app_config"
           /\ HandshakeFailed(rsp')
           /\ ~Exists(fs, PREVIOUS))
              => (fs' = fs /\ pc' = "main_loop")]_vars

\* C33 happens: the rolled-back image runs, its handshake failed too, and
\* the start-up has gone on to the main loop with no slot staged
C33_Witness ==
    /\ last = "update_app_config"
    /\ HandshakeFailed(rsp)
    /\ pc = "main_loop"
    /\ savedPrevious # None
    /\ fs = [n \in Slots |-> IF n = MAIN THEN savedPrevious ELSE None]
    /\ replaced = savedPrevious

(***************************************************************************)
(* The firmware with resets that cut boot.py short: the device is reset    *)
(* after the first or the second file operation of boot.py, and boot.py    *)
(* starts again.  pre keeps the slots the interrupted run started from.    *)
(***************************************************************************)
BootReset ==
    /\ pc = "boot"
    /\ last # "reset"
    /\ \E k \in {1, 2} :
          /\ fs' = bootpy_code_until(fs, k).fs
          /\ fs' # bootpy_code(fs).fs
    /\ last' = "reset"
    /\ pre' = [fs |-> fs, cfg |-> cfg]
    /\ UNCHANGED <<bootErr, pc, cfg, cfgFile, rsp, replaced, savedPrevious>>

SpecReset == Init /\ [][Next \/ (BootReset /\ UNCHANGED meterVars)]_vars

\* C34: when boot.py was cut short by a reset between two of its file
\* operations and runs again from the start, the slots end up as boot.py
\* would have left them when run through.
C34_BootRestartable ==
    [][(last = "reset" /\ last' = "boot")
          => fs' = bootpy_code(pre.fs).fs]_vars

(***************************************************************************)
(* The two meters that post tick lists and start new ones: the hall meter  *)
(* after start() or the reed meter late in a steady flow.                  *)
(***************************************************************************)
SpecBatches == (HallInit \/ ReedFullInit) /\ [][MetersNext]_vars

\* C35: while actively_publishing (posting_ticklist on the reed meter) is
\* not set, first_tick_us (first_tick_ms) is None if and only if the list
\* of relative timestamps is empty; so the last element read under
\* 'first_tick is not None' is there.
C35_FirstTickIffList ==
    /\ ~hall.actively_publishing
          => (hall.first_tick_us = PyNone <=> hall.relative_us_list = <<>>)
    /\ ~reed.posting_ticklist
          => (reed.first_tick_ms = PyNone <=> reed.relative_ms_list = <<>>)

\* C35 happens: a list was posted and cleared, the guard is released and
\* the next list has been started
C35_Witness ==
    /\ Len(hobs.flushed) = 1
    /\ ~hall.actively_publishing
    /\ hall.first_tick_us # PyNone
    /\ hall.relative_us_list = <<0>>

\* C36: the pulse (the tick) that finds first_tick_us (first_tick_ms) None,
\* at start-up or after a list was posted, sets it to the clock and makes
\* the list [0]; update_hz (update_gpm) is not called: the smoothed rate,
\* the last posted rate and the posts made stay as they were.
C36_FirstEdgeOfBatch ==
    [][/\ (hall.first_tick_us = PyNone /\ hall'.first_tick_us # PyNone)
          => /\ hall'.first_tick_us = hnow'
             /\ hall'.relative_us_list = <<0>>
             /\ hall'.exp_hz = hall.exp_hz
             /\ hall'.prev_hz = hall.prev_hz
             /\ hall'.hz_posts = hall.hz_posts
       /\ (reed.first_tick_ms = PyNone /\ reed'.first_tick_ms # PyNone)
          => /\ reed'.first_tick_ms = now'
             /\ reed'.relative_ms_list = <<0>>
             /\ reed'.exp_gpm = reed.exp_gpm
             /\ reed'.prev_gpm = reed.prev_gpm
             /\ reed'.gpm_posts = reed.gpm_posts]_vars

\* C36 happens: the first pulse after a posted list found a rate above 0 and
\* left it as it was
C36_Witness ==
    /\ Len(hobs.flushed) = 1
    /\ hobs.pulses = 3
    /\ hobs.ids = <<3>>
    /\ hall.relative_us_list = <<0>>
    /\ hall.exp_hz > 0
    /\ hall.prev_hz = hall.exp_hz

\* C37: when a post of the rate has been made, by a callback or by
\* main_loop, the Transport raising or not, prev_hz is the smoothed rate
\* and hz_posted_time the second of the clock, as the post finds them when
\* urequests.post has returned; nothing else changes prev_hz or
\* hz_posted_time, so a post that raised is not made again for its own sake.
C37_FailedPostRecorded ==
    [][/\ \/ hall'.hz_posts # hall.hz_posts /\ hpc' = hpc
          \/ hpc = "record_hz" /\ hpc' # hpc
          => /\ hall'.prev_hz = hall'.exp_hz
             /\ hall'.hz_posted_time = utime_time(hnow')
       /\ (hall'.prev_hz # hall.prev_hz
           \/ hall'.hz_posted_time # hall.hz_posted_time)
          => \/ hall'.hz_posts # hall.hz_posts /\ hpc' = hpc
             \/ hpc = "record_hz" /\ hpc' # hpc]_vars

\* C37 happens: the first post of the rate, made by the second pulse,
\* raised, and the rate is recorded as posted in the second of that pulse
C37_Witness ==
    /\ hobs.pulses = 2
    /\ hall.hz_posts = 1
    /\ ~hall.hz_ok
    /\ hall.prev_hz = hall.exp_hz
    /\ hall.exp_at_post = hall.exp_hz
    /\ hall.hz_posted_time = utime_time(hnow)
    /\ hall.hz_posted_time > 0

\* C38 as stated: outside a post_hz that main_loop has begun and not ended,
\* prev_hz is the rate that the last report given to the Transport carried,
\* however the pulses and the timer cut into main_loop.
C38_PrevIsLastReported ==
    (hpc # "record_hz" /\ hall.prev_hz # PyNone)
        => hall.prev_hz = hall.exp_at_post

\* C39 as stated: when post_btu_data empties relative_us_list_list after
\* its request, every list in it is in the payload that was sent, the ones
\* that measure_flow appended during the request included (after it,
\* nothing is left for the next post).
C39_WindowNotLost ==
    [][(bobs.pc = "clear" /\ bobs'.pc = "release_guard")
           => \A i \in DOMAIN btu.relative_us_list_list :
                  /\ i \in DOMAIN bobs.payload
                  /\ bobs.payload[i] = btu.relative_us_list_list[i]]_vars

\* C40: between one tick of the reed meter and the next, update_gpm(1e9) is
\* called at most once, by the pass that sets published_0_gpm; and only a
\* pass that appends a tick clears published_0_gpm.
C40_ZeroOncePerGap ==
    [][/\ reed'.zeros_fed <= 1
       /\ reed'.zeros_fed # reed.zeros_fed /\ reed'.zeros_fed > 0
              => ~reed.published_0_gpm /\ reed'.published_0_gpm
       /\ reed.published_0_gpm /\ ~reed'.published_0_gpm
              => /\ reed'.last_tick_abs # reed.last_tick_abs
                 /\ reed'.last_tick_abs = now']_vars

\* C40 happens: after a second tick, 0 gpm was reported, and the last pass,
\* still more than no_flow_milliseconds after that tick, began with
\* published_0_gpm set and did not report it again
C40_Witness ==
    /\ obs.step = "pass"
    /\ reed.tick_gap # PyNone
    /\ obs.pre.published_0_gpm
    /\ obs.pre.zeros_fed = 1
    /\ obs.pre.last_tick_abs = reed.last_tick_abs
    /\ now - reed.last_tick_abs > reed.no_flow_milliseconds
    /\ reed.zeros_fed = 1

====
